---- MODULE Spec2Model ----
(***************************************************************************)
(* Order placement, cancellation and status update of the marketplace      *)
(* backend (src/src/controllers/orderController.js) over the Sequelize     *)
(* models Product, Order, OrderItem, Cart, CartItem and Address.           *)
(*                                                                         *)
(* Database: the committed rows are the variables produtos, carrinhos,     *)
(* enderecos, pedidos, itensPedido.  A statement issued with               *)
(* { transaction } is buffered in tx[c] and takes effect at commit; a      *)
(* statement issued without it is applied at once (autocommit); a read     *)
(* sees committed rows only (READ COMMITTED).  A row-lock wait only delays *)
(* a statement, and every such delay is an interleaving the model has.     *)
(*                                                                         *)
(* Money: preco, and the DECIMAL(10,2) columns, are whole cents.  A        *)
(* JavaScript number computed from them is kept exactly, in units of       *)
(* 1/Escala cent (a percent discount of a whole cent needs no more).       *)
(***************************************************************************)
EXTENDS Integers, Sequences, FiniteSets, TLC

\* ----------------------------------------------------------------- bounds
MaxCalls == 2          \* HTTP requests handled in one behaviour
MaxFalhas == 1         \* database statements that throw in one behaviour
MaxQtd == 2            \* largest quantity of a cart line (pricing runs)

\* ------------------------------------------------------- program constants
Escala == 100          \* getPrecoFinal divides preco * percentualDesconto by 100
NullPct == 0 - 1       \* percentualDesconto is NULL (allowNull: true)

Calls == 1 .. MaxCalls
Consumidores == {1, 2}
Produtores == {3, 4}
Products == {1, 2}
AddrIds == {1, 2}

StatusEnum == {"pendente", "confirmado", "preparando", "enviado", "entregue", "cancelado"}
\* Faulty variant of validStatuses: cancelado is accepted as a target.
validStatusesComCancelado == {"confirmado", "preparando", "enviado", "entregue", "cancelado"}

\* const validStatuses of updateOrderStatus
validStatuses == {"confirmado", "preparando", "enviado", "entregue"}

VARIABLES
  usuarios,      \* users rows: id -> [email, tipo, ativo], and whether a token was issued to the user
  produtos,      \* products rows: id -> [preco, promocao, percentualDesconto, estoque, ativo, produtorId]
  carrinhos,     \* cart_items rows of each user's cart, in row order: <<[productId, quantidade]>>
  enderecos,     \* addresses rows: id -> [userId, principal, rua]
  pedidos,       \* orders rows: id -> [consumidorId, status, valorTotal, enderecoEntrega, dataEntregaRealizada]
  itensPedido,   \* order_items rows of each order, in row order
  seqPedido,     \* the orders id sequence (autoIncrement); a rollback does not give ids back
  pc,            \* where each request handler stands (the await it is suspended at)
  req,           \* the request of each call: the handler it is routed to and req.params.id
  loc,           \* the handler's local variables (userId, enderecoId, status, cart, ...)
  tx,            \* the handler's transaction: its state and the statements buffered in it
  resp,          \* the HTTP response sent, "none" while there is none
  falhas,        \* database statements that have thrown so far
  estoqueAntes   \* history: per order, the stock just before its commit, whether a
                 \* cancelOrder of it has committed (cancelou), and whether that
                 \* order's creation and first cancellation are still the only
                 \* stock changes since (ok)

db == <<usuarios, produtos, carrinhos, enderecos, pedidos, itensPedido>>
vars == <<usuarios, produtos, carrinhos, enderecos, pedidos, itensPedido, seqPedido, pc, req, loc, tx, resp,
          falhas, estoqueAntes>>

\* ------------------------------------------------------------ pure methods

\* Faulty variant of getPrecoFinal: the discount is never applied.
getPrecoFinalSemDesconto(p) == p.preco * Escala

\* Product.prototype.getPrecoFinal, in units of 1/Escala cent.
\* `this.promocao && this.percentualDesconto` is falsy for NULL and for 0.
getPrecoFinal(p) ==
  IF p.promocao /\ p.percentualDesconto # NullPct /\ p.percentualDesconto # 0
    THEN p.preco * Escala - p.preco * p.percentualDesconto
    ELSE p.preco * Escala

\* Faulty variant of podeCancelar: every order not yet cancelled can be cancelled.
podeCancelarNaoCancelado(status) == status # "cancelado"

\* Order.prototype.podeCancelar
podeCancelar(status) == status \in {"pendente", "confirmado"}

\* Faulty variant of estaFinalizado: an order already sent counts as finalized.
estaFinalizadoOuEnviado(status) == status \in {"enviado", "entregue", "cancelado"}

\* Order.prototype.estaFinalizado
estaFinalizado(status) == status \in {"entregue", "cancelado"}

\* A number written to a DECIMAL(10,2) column, or through toFixed(2): the cents it
\* can become.  It is rounded to the nearest cent; exactly half a cent goes either
\* way, since the binary double standing for it lies just above or just below.
Decimal2(x) ==
  LET q == x \div Escala
      r == x % Escala
  IN  IF 2 * r < Escala THEN {q}
      ELSE IF 2 * r > Escala THEN {q + 1}
      ELSE {q, q + 1}

RECURSIVE SomaSubtotais(_)
\* valorTotal += subtotal over itensValidos
SomaSubtotais(s) ==
  IF s = <<>> THEN 0 ELSE s[1].subtotal + SomaSubtotais(Tail(s))

\* Faulty variant of PrimeiroInvalido: every line is tested for an inactive
\* product before any line is tested for stock.
PrimeiroInvalidoPorFases(itens, i) ==
  LET inativas == {j \in i .. Len(itens) : ~itens[j].produto.ativo}
      curtas   == {j \in i .. Len(itens) : itens[j].produto.estoque < itens[j].quantidade}
      Menor(S) == CHOOSE j \in S : \A k \in S : j <= k
  IN  IF inativas # {} THEN [i |-> Menor(inativas), erro |-> "indisponivel"]
      ELSE IF curtas # {} THEN [i |-> Menor(curtas), erro |-> "estoque_insuficiente"]
      ELSE [i |-> 0, erro |-> "nenhum"]

RECURSIVE PrimeiroInvalido(_, _)
\* The validation loop of createOrder over cart.itens: the first line, in row
\* order, whose product is inactive or whose stock is short, with the error; 0 if none.
PrimeiroInvalido(itens, i) ==
  IF i > Len(itens) THEN [i |-> 0, erro |-> "nenhum"]
  ELSE IF ~itens[i].produto.ativo THEN [i |-> i, erro |-> "indisponivel"]
  ELSE IF itens[i].produto.estoque < itens[i].quantidade
         THEN [i |-> i, erro |-> "estoque_insuficiente"]
  ELSE PrimeiroInvalido(itens, i + 1)

\* itensValidos.push({productId, quantidade, precoUnitario, subtotal})
ItemValido(item) ==
  [productId     |-> item.productId,
   quantidade    |-> item.quantidade,
   precoUnitario |-> getPrecoFinal(item.produto),
   subtotal      |-> getPrecoFinal(item.produto) * item.quantidade]

ItensValidos(itens) == [i \in 1 .. Len(itens) |-> ItemValido(itens[i])]

\* ------------------------------------------------------------ transactions
NoTx == [estado |-> "none", pedido |-> <<>>, itens |-> <<>>, deltas |-> <<>>,
         destroy |-> {}, status |-> "nenhum"]
NoAddr == [id |-> 0, userId |-> 0, principal |-> FALSE, rua |-> 0]
NoLoc == [userId |-> 0, enderecoId |-> 0, status |-> "nenhum",
          cart |-> <<>>, endereco |-> NoAddr, itensValidos |-> <<>>, valorTotal |-> 0,
          orderId |-> 0, i |-> 0, orderStatus |-> "nenhum", itens |-> <<>>]
NoReq == [kind |-> "none", id |-> 0]

RECURSIVE SomaDeltas(_, _)
\* The net change the buffered increments and decrements make to product p.
SomaDeltas(ds, p) ==
  IF ds = <<>> THEN 0
  ELSE (IF ds[1].productId = p THEN ds[1].by ELSE 0) + SomaDeltas(Tail(ds), p)

\* transaction.rollback() on an open transaction: the buffered statements are dropped.
Rollback(c) == tx' = [tx EXCEPT ![c] = [NoTx EXCEPT !.estado = "rollback"]]

\* The handler returns after sending response r; its locals are gone (the id of
\* the order it inserted is kept, to tell whose row it is).
Fim(c, r) ==
  /\ resp' = [resp EXCEPT ![c] = r]
  /\ pc' = [pc EXCEPT ![c] = "done"]
  /\ loc' = [loc EXCEPT ![c] = [NoLoc EXCEPT !.orderId = loc[c].orderId]]

\* A return after `await transaction.rollback()` in the try block.
Rejeita(c, r) == Rollback(c) /\ Fim(c, r)

\* The catch block of createOrder and cancelOrder: `await transaction.rollback()`
\* then error(res).  rollback() on a finished transaction throws, the handler's
\* promise rejects and no response is sent.
Catch(c) ==
  IF tx[c].estado = "open"
    THEN Rollback(c) /\ Fim(c, "erro_interno")
    ELSE tx' = tx /\ Fim(c, "sem_resposta")

\* A database statement either throws (f) or runs; at most MaxFalhas throw.
Falha(f) ==
  /\ f => falhas < MaxFalhas
  /\ falhas' = IF f THEN falhas + 1 ELSE falhas

\* ------------------------------------------------------------- createOrder

\* POST /api/orders: sequelize.transaction()
CreateBegin(c, u, e) ==
  /\ pc[c] = "idle"
  /\ \A d \in Calls : d < c => pc[d] # "idle"
  /\ req' = [req EXCEPT ![c] = [NoReq EXCEPT !.kind = "create"]]
  /\ loc' = [loc EXCEPT ![c] = [NoLoc EXCEPT !.userId = u, !.enderecoId = e]]
  /\ tx' = [tx EXCEPT ![c] = [NoTx EXCEPT !.estado = "open"]]
  /\ pc' = [pc EXCEPT ![c] = "c_cart"]
  /\ UNCHANGED <<db, seqPedido, estoqueAntes, resp, falhas>>
  /\ UNCHANGED usuarios

\* Faulty variant of CarrinhoVazio: the number of lines is not looked at.
CarrinhoVazioSoSemCarrinho(u) == u \notin DOMAIN carrinhos

\* !cart || cart.itens.length === 0, on the rows Cart.findOne returns
CarrinhoVazio(u) == u \notin DOMAIN carrinhos \/ Len(carrinhos[u]) = 0

\* Cart.findOne with its lines and their products, read outside the transaction
CreateReadCart(c, f) ==
  /\ pc[c] = "c_cart"
  /\ Falha(f)
  /\ IF f
       THEN Catch(c)
       ELSE IF CarrinhoVazio(loc[c].userId)
         THEN Rejeita(c, "carrinho_vazio")
         ELSE LET linhas == IF loc[c].userId \in DOMAIN carrinhos
                              THEN carrinhos[loc[c].userId] ELSE <<>>
                  cart == [i \in 1 .. Len(linhas) |->
                             [productId  |-> linhas[i].productId,
                              quantidade |-> linhas[i].quantidade,
                              produto    |-> produtos[linhas[i].productId]]]
              IN  /\ loc' = [loc EXCEPT ![c].cart = cart]
                  /\ pc' = [pc EXCEPT ![c] = "c_addr"]
                  /\ UNCHANGED <<tx, resp>>
  /\ UNCHANGED <<db, seqPedido, estoqueAntes, req>>
  /\ UNCHANGED usuarios

\* Faulty variant of AddressFound: the id is looked up whoever owns the address.
AddressFoundSemDono(u, e) ==
  IF e # 0
    THEN {a \in DOMAIN enderecos : a = e}
    ELSE {a \in DOMAIN enderecos : enderecos[a].userId = u /\ enderecos[a].principal}

\* Address.findOne by id and owner, or the owner's principal address
AddressFound(u, e) ==
  IF e # 0
    THEN {a \in DOMAIN enderecos : a = e /\ enderecos[a].userId = u}
    ELSE {a \in DOMAIN enderecos : enderecos[a].userId = u /\ enderecos[a].principal}

CreateReadAddress(c, f) ==
  /\ pc[c] = "c_addr"
  /\ Falha(f)
  /\ IF f
       THEN Catch(c)
       ELSE LET found == AddressFound(loc[c].userId, loc[c].enderecoId)
            IN  IF found = {}
                  THEN Rejeita(c, IF loc[c].enderecoId # 0
                                    THEN "endereco_nao_encontrado"
                                    ELSE "sem_endereco")
                  ELSE \* enderecoEntrega = address.toJSON(): the row, by value
                       /\ \E a \in found :
                            loc' = [loc EXCEPT ![c].endereco =
                                      [id |-> a, userId |-> enderecos[a].userId,
                                       principal |-> enderecos[a].principal,
                                       rua |-> enderecos[a].rua]]
                       /\ pc' = [pc EXCEPT ![c] = "c_order"]
                       /\ UNCHANGED <<tx, resp>>
  /\ UNCHANGED <<db, seqPedido, estoqueAntes, req>>
  /\ UNCHANGED usuarios

\* The validation loop, then Order.create({..., status: 'pendente'}, { transaction }).
\* Order.valorTotal has validate min 0.01; a failed validation throws before the INSERT.
CreateOrderRow(c, f) ==
  /\ pc[c] = "c_order"
  /\ Falha(f)
  /\ LET inval == PrimeiroInvalido(loc[c].cart, 1)
         iv    == ItensValidos(loc[c].cart)
         total == SomaSubtotais(iv)
     IN  IF inval.i # 0
           THEN ~f /\ Rejeita(c, inval.erro) /\ UNCHANGED seqPedido
           ELSE \E vt \in Decimal2(total) :   \* parseFloat(valorTotal.toFixed(2))
                  IF f \/ vt < 1
                    THEN Catch(c) /\ UNCHANGED seqPedido
                    ELSE /\ tx' = [tx EXCEPT ![c].pedido =
                                    <<[consumidorId         |-> loc[c].userId,
                                       status               |-> "pendente",
                                       valorTotal           |-> vt,
                                       enderecoEntrega      |-> loc[c].endereco,
                                       dataEntregaRealizada |-> FALSE]>>]
                         /\ loc' = [loc EXCEPT ![c].itensValidos = iv,
                                               ![c].valorTotal = total,
                                               ![c].orderId = seqPedido,
                                               ![c].i = 1]
                         /\ seqPedido' = seqPedido + 1
                         /\ pc' = [pc EXCEPT ![c] = "c_item"]
                         /\ UNCHANGED resp
  /\ UNCHANGED <<db, req, estoqueAntes>>
  /\ UNCHANGED usuarios

\* OrderItem.create({...}, { transaction }) for itensValidos[i].  precoUnitario and
\* subtotal have validate min 0.01; the beforeCreate hook then sets
\* subtotal = quantidade * precoUnitario; both columns are DECIMAL(10,2).
CreateItem(c, f) ==
  /\ pc[c] = "c_item"
  /\ Falha(f)
  /\ LET it == loc[c].itensValidos[loc[c].i]
     IN  IF f \/ it.precoUnitario < Escala \/ it.subtotal < Escala \/ it.quantidade < 1
           THEN Catch(c)
           ELSE /\ \E pu \in Decimal2(it.precoUnitario) :
                   \E st \in Decimal2(it.quantidade * it.precoUnitario) :
                     tx' = [tx EXCEPT ![c].itens = Append(@,
                              [orderId       |-> loc[c].orderId,
                               productId     |-> it.productId,
                               quantidade    |-> it.quantidade,
                               precoUnitario |-> pu,
                               subtotal      |-> st])]
                /\ pc' = [pc EXCEPT ![c] = "c_dec"]
                /\ UNCHANGED <<resp, loc>>
  /\ UNCHANGED <<db, seqPedido, estoqueAntes, req>>
  /\ UNCHANGED usuarios

\* Product.decrement('estoque', { by: quantidade, where: { id }, transaction }):
\* UPDATE products SET estoque = estoque - by WHERE id; no validator runs.
Decremento(it) == [productId |-> it.productId, by |-> 0 - it.quantidade]

\* Faulty variant of CreateDecrement: Product.decrement without { transaction }, applied at once.
CreateDecrementSemTransaction(c, f) ==
  /\ pc[c] = "c_dec"
  /\ Falha(f)
  /\ LET it == loc[c].itensValidos[loc[c].i]
     IN  IF f
           THEN Catch(c) /\ UNCHANGED produtos
           ELSE /\ produtos' = [produtos EXCEPT ![it.productId].estoque = @ - it.quantidade]
                /\ loc' = [loc EXCEPT ![c].i = @ + 1]
                /\ pc' = [pc EXCEPT ![c] =
                            IF loc[c].i < Len(loc[c].itensValidos) THEN "c_item" ELSE "c_destroy"]
                /\ UNCHANGED <<resp, tx>>
  /\ UNCHANGED <<carrinhos, enderecos, pedidos, itensPedido, seqPedido, estoqueAntes, req>>
  /\ UNCHANGED usuarios

CreateDecrement(c, f) ==
  /\ pc[c] = "c_dec"
  /\ Falha(f)
  /\ LET it == loc[c].itensValidos[loc[c].i]
     IN  IF f
           THEN Catch(c)
           ELSE /\ tx' = [tx EXCEPT ![c].deltas = Append(@, Decremento(it))]
                /\ loc' = [loc EXCEPT ![c].i = @ + 1]
                /\ pc' = [pc EXCEPT ![c] =
                            IF loc[c].i < Len(loc[c].itensValidos) THEN "c_item" ELSE "c_destroy"]
                /\ UNCHANGED resp
  /\ UNCHANGED <<db, seqPedido, estoqueAntes, req>>
  /\ UNCHANGED usuarios

\* Faulty variant of CreateDestroy: CartItem.destroy without { transaction }, applied at once.
CreateDestroySemTransaction(c, f) ==
  /\ pc[c] = "c_destroy"
  /\ Falha(f)
  /\ IF f
       THEN Catch(c) /\ UNCHANGED carrinhos
       ELSE /\ carrinhos' = [carrinhos EXCEPT ![loc[c].userId] = <<>>]
            /\ pc' = [pc EXCEPT ![c] = "c_commit"]
            /\ UNCHANGED <<resp, loc, tx>>
  /\ UNCHANGED <<produtos, enderecos, pedidos, itensPedido, seqPedido, estoqueAntes, req>>
  /\ UNCHANGED usuarios

\* CartItem.destroy({ where: { cartId: cart.id }, transaction }): deletes the rows
\* the cart has when the statement runs.
CreateDestroy(c, f) ==
  /\ pc[c] = "c_destroy"
  /\ Falha(f)
  /\ IF f
       THEN Catch(c)
       ELSE /\ tx' = [tx EXCEPT ![c].destroy =
                        {carrinhos[loc[c].userId][i].productId :
                           i \in 1 .. Len(carrinhos[loc[c].userId])}]
            /\ pc' = [pc EXCEPT ![c] = "c_commit"]
            /\ UNCHANGED <<resp, loc>>
  /\ UNCHANGED <<db, seqPedido, estoqueAntes, req>>
  /\ UNCHANGED usuarios

\* The stock column after the buffered increments and decrements are committed.
AplicaDeltas(ds) ==
  [p \in Products |-> [produtos[p] EXCEPT !.estoque = @ + SomaDeltas(ds, p)]]

\* transaction.commit() of createOrder
CreateCommit(c) ==
  /\ pc[c] = "c_commit"
  /\ pedidos' = pedidos @@ (loc[c].orderId :> tx[c].pedido[1])
  /\ itensPedido' = itensPedido @@ (loc[c].orderId :> tx[c].itens)
  /\ produtos' = AplicaDeltas(tx[c].deltas)
  /\ carrinhos' = [carrinhos EXCEPT ![loc[c].userId] =
                     SelectSeq(@, LAMBDA l : l.productId \notin tx[c].destroy)]
  /\ tx' = [tx EXCEPT ![c] = [NoTx EXCEPT !.estado = "commit"]]
  /\ pc' = [pc EXCEPT ![c] = "c_reload"]
  /\ estoqueAntes' = [o \in DOMAIN estoqueAntes |-> [estoqueAntes[o] EXCEPT !.ok = FALSE]] @@
                     (loc[c].orderId :> [ok |-> TRUE, cancelou |-> FALSE,
                                         estoque |-> [p \in Products |-> produtos[p].estoque]])
  /\ UNCHANGED <<enderecos, seqPedido, req, loc, resp, falhas>>
  /\ UNCHANGED usuarios

\* Order.findByPk(order.id, ...) after the commit, then success(res, ..., 201)
CreateReload(c, f) ==
  /\ pc[c] = "c_reload"
  /\ Falha(f)
  /\ IF f
       THEN Catch(c)
       ELSE Fim(c, "ok") /\ UNCHANGED tx
  /\ UNCHANGED <<db, seqPedido, estoqueAntes, req>>
  /\ UNCHANGED usuarios

\* ------------------------------------------------------------- cancelOrder

\* PUT /api/orders/:id/cancel: sequelize.transaction()
CancelBegin(c, u, o) ==
  /\ pc[c] = "idle"
  /\ \A d \in Calls : d < c => pc[d] # "idle"
  /\ req' = [req EXCEPT ![c] = [NoReq EXCEPT !.kind = "cancel", !.id = o]]
  /\ loc' = [loc EXCEPT ![c] = [NoLoc EXCEPT !.userId = u]]
  /\ tx' = [tx EXCEPT ![c] = [NoTx EXCEPT !.estado = "open"]]
  /\ pc' = [pc EXCEPT ![c] = "x_read"]
  /\ UNCHANGED <<db, seqPedido, estoqueAntes, resp, falhas>>
  /\ UNCHANGED usuarios

\* Order.findOne({ where: { id, consumidorId: userId }, include: itens }), read
\* outside the transaction, then the podeCancelar guard on the row as read
CancelRead(c, f) ==
  /\ pc[c] = "x_read"
  /\ Falha(f)
  /\ LET o == req[c].id
     IN  IF f
           THEN Catch(c)
           ELSE IF o \notin DOMAIN pedidos \/ pedidos[o].consumidorId # loc[c].userId
             THEN Rejeita(c, "pedido_nao_encontrado")
           ELSE IF ~podeCancelar(pedidos[o].status)
             THEN Rejeita(c, "nao_pode_cancelar")
           ELSE /\ loc' = [loc EXCEPT ![c].orderStatus = pedidos[o].status,
                                      ![c].itens = itensPedido[o],
                                      ![c].i = 1]
                /\ pc' = [pc EXCEPT ![c] = IF itensPedido[o] = <<>> THEN "x_update" ELSE "x_inc"]
                /\ UNCHANGED <<tx, resp>>
  /\ UNCHANGED <<db, seqPedido, estoqueAntes, req>>
  /\ UNCHANGED usuarios

\* Faulty variant of Incremento: the default `by` of Model.increment, 1, not the line's quantity.
IncrementoDeUm(it) == [productId |-> it.productId, by |-> 1]

\* Product.increment('estoque', { by: item.quantidade, where: { id: item.productId }, transaction })
Incremento(it) == [productId |-> it.productId, by |-> it.quantidade]

CancelIncrement(c, f) ==
  /\ pc[c] = "x_inc"
  /\ Falha(f)
  /\ LET it == loc[c].itens[loc[c].i]
     IN  IF f
           THEN Catch(c)
           ELSE /\ tx' = [tx EXCEPT ![c].deltas = Append(@, Incremento(it))]
                /\ loc' = [loc EXCEPT ![c].i = @ + 1]
                /\ pc' = [pc EXCEPT ![c] =
                            IF loc[c].i < Len(loc[c].itens) THEN "x_inc" ELSE "x_update"]
                /\ UNCHANGED resp
  /\ UNCHANGED <<db, seqPedido, estoqueAntes, req>>
  /\ UNCHANGED usuarios

\* order.update({ status: 'cancelado' }, { transaction })
CancelUpdate(c, f) ==
  /\ pc[c] = "x_update"
  /\ Falha(f)
  /\ IF f
       THEN Catch(c)
       ELSE /\ tx' = [tx EXCEPT ![c].status = "cancelado"]
            /\ pc' = [pc EXCEPT ![c] = "x_commit"]
            /\ UNCHANGED <<resp, loc>>
  /\ UNCHANGED <<db, seqPedido, estoqueAntes, req>>
  /\ UNCHANGED usuarios

\* transaction.commit() of cancelOrder, then success(res, order, ...)
CancelCommit(c) ==
  /\ pc[c] = "x_commit"
  /\ produtos' = AplicaDeltas(tx[c].deltas)
  /\ pedidos' = [pedidos EXCEPT ![req[c].id].status = tx[c].status]
  /\ tx' = [tx EXCEPT ![c] = [NoTx EXCEPT !.estado = "commit"]]
  /\ estoqueAntes' = [o \in DOMAIN estoqueAntes |->
                        IF o = req[c].id /\ ~estoqueAntes[o].cancelou
                          THEN [estoqueAntes[o] EXCEPT !.cancelou = TRUE]
                          ELSE [estoqueAntes[o] EXCEPT !.ok = FALSE]]
  /\ Fim(c, "ok")
  /\ UNCHANGED <<carrinhos, enderecos, itensPedido, seqPedido, req, falhas>>
  /\ UNCHANGED usuarios

\* ------------------------------------------------------- updateOrderStatus

\* PUT /api/orders/:id/status: the validStatuses check, before any await
UpdBegin(c, u, o, s) ==
  /\ pc[c] = "idle"
  /\ \A d \in Calls : d < c => pc[d] # "idle"
  /\ req' = [req EXCEPT ![c] = [NoReq EXCEPT !.kind = "status", !.id = o]]
  /\ IF s \notin validStatuses
       THEN Fim(c, "status_invalido")
       ELSE /\ loc' = [loc EXCEPT ![c] = [NoLoc EXCEPT !.userId = u, !.status = s]]
            /\ pc' = [pc EXCEPT ![c] = "u_read"]
            /\ UNCHANGED resp
  /\ UNCHANGED <<db, seqPedido, estoqueAntes, tx, falhas>>
  /\ UNCHANGED usuarios

\* Faulty variant of VendeNoPedido: the lines are not filtered by producer.
VendeNoPedidoSemDono(u, o) == Len(itensPedido[o]) > 0

\* Order.findOne({ where: { id }, include: itens (required) whose produto has
\* this produtorId }): the order, if one of its lines is a product of the caller
VendeNoPedido(u, o) ==
  \E i \in 1 .. Len(itensPedido[o]) : produtos[itensPedido[o][i].productId].produtorId = u

\* The catch block of updateOrderStatus: error(res)
CatchStatus(c) == Fim(c, "erro_interno")

UpdRead(c, f) ==
  /\ pc[c] = "u_read"
  /\ Falha(f)
  /\ LET o == req[c].id
     IN  IF f
           THEN CatchStatus(c)
           ELSE IF o \notin DOMAIN pedidos \/ ~VendeNoPedido(loc[c].userId, o)
             THEN Fim(c, "pedido_nao_encontrado")
           ELSE IF estaFinalizado(pedidos[o].status)
             THEN Fim(c, "ja_finalizado")
           ELSE /\ loc' = [loc EXCEPT ![c].orderStatus = pedidos[o].status]
                /\ pc' = [pc EXCEPT ![c] = "u_write"]
                /\ UNCHANGED resp
  /\ UNCHANGED <<db, seqPedido, estoqueAntes, req, tx>>
  /\ UNCHANGED usuarios

\* Faulty variant of UpdWrite: dataEntregaRealizada is stamped whatever the target.
UpdWriteSempreCarimba(c, f) ==
  /\ pc[c] = "u_write"
  /\ Falha(f)
  /\ LET o == req[c].id
         s == loc[c].status
     IN  IF f
           THEN CatchStatus(c) /\ UNCHANGED pedidos
           ELSE /\ pedidos' = [pedidos EXCEPT
                     ![o].status = IF s # loc[c].orderStatus THEN s ELSE @,
                     ![o].dataEntregaRealizada = TRUE]
                /\ Fim(c, "ok")
  /\ UNCHANGED <<produtos, carrinhos, enderecos, itensPedido, seqPedido, estoqueAntes, req, tx>>
  /\ UNCHANGED usuarios

\* order.update(updateData), with no transaction: UPDATE orders SET the fields of
\* updateData that differ from the instance as read (Sequelize saves changed
\* fields only), WHERE id.  dataEntregaRealizada = new Date() always differs.
UpdWrite(c, f) ==
  /\ pc[c] = "u_write"
  /\ Falha(f)
  /\ LET o == req[c].id
         s == loc[c].status
     IN  IF f
           THEN CatchStatus(c) /\ UNCHANGED pedidos
           ELSE /\ pedidos' = [pedidos EXCEPT
                     ![o].status = IF s # loc[c].orderStatus THEN s ELSE @,
                     ![o].dataEntregaRealizada = IF s = "entregue" THEN TRUE ELSE @]
                /\ Fim(c, "ok")
  /\ UNCHANGED <<produtos, carrinhos, enderecos, itensPedido, seqPedido, estoqueAntes, req, tx>>
  /\ UNCHANGED usuarios

\* ---------------------------------------------------------------- addToCart

\* POST /api/cart/add, past validateCartItem (quantidade >= 1)
AddBegin(c, u, p, q) ==
  /\ pc[c] = "idle"
  /\ \A d \in Calls : d < c => pc[d] # "idle"
  /\ req' = [req EXCEPT ![c] = [NoReq EXCEPT !.kind = "addToCart", !.id = p]]
  /\ loc' = [loc EXCEPT ![c] = [NoLoc EXCEPT !.userId = u] @@ [quantidade |-> q]]
  /\ pc' = [pc EXCEPT ![c] = "a_prod"]
  /\ UNCHANGED <<db, seqPedido, estoqueAntes, tx, resp, falhas>>
  /\ UNCHANGED usuarios

\* Product.findOne({ where: { id, ativo: true } }), then the stock check
AddReadProduct(c, f) ==
  /\ pc[c] = "a_prod"
  /\ Falha(f)
  /\ LET p == req[c].id
     IN  IF f
           THEN Fim(c, "erro_interno")
           ELSE IF p \notin DOMAIN produtos \/ ~produtos[p].ativo
             THEN Fim(c, "produto_nao_encontrado")
           ELSE IF produtos[p].estoque < loc[c].quantidade
             THEN Fim(c, "estoque_insuficiente")
           ELSE /\ loc' = [loc EXCEPT ![c] = @ @@ [produto |-> produtos[p]]]
                /\ pc' = [pc EXCEPT ![c] = "a_cart"]
                /\ UNCHANGED resp
  /\ UNCHANGED <<db, seqPedido, estoqueAntes, req, tx>>
  /\ UNCHANGED usuarios

\* Cart.findOne({ where: { userId } })
AddReadCart(c, f) ==
  /\ pc[c] = "a_cart"
  /\ Falha(f)
  /\ IF f
       THEN Fim(c, "erro_interno")
       ELSE /\ pc' = [pc EXCEPT ![c] = IF loc[c].userId \in DOMAIN carrinhos
                                         THEN "a_item" ELSE "a_newcart"]
            /\ UNCHANGED <<resp, loc>>
  /\ UNCHANGED <<db, seqPedido, estoqueAntes, req, tx>>
  /\ UNCHANGED usuarios

\* Cart.create({ userId }); carts.userId is unique, a second cart of the user throws
AddCreateCart(c, f) ==
  /\ pc[c] = "a_newcart"
  /\ Falha(f)
  /\ IF f \/ loc[c].userId \in DOMAIN carrinhos
       THEN Fim(c, "erro_interno") /\ UNCHANGED carrinhos
       ELSE /\ carrinhos' = carrinhos @@ (loc[c].userId :> <<>>)
            /\ pc' = [pc EXCEPT ![c] = "a_item"]
            /\ UNCHANGED <<resp, loc>>
  /\ UNCHANGED <<produtos, enderecos, pedidos, itensPedido, seqPedido, estoqueAntes, req, tx>>
  /\ UNCHANGED usuarios

\* The quantity of the cart line of product p in the cart of user u, 0 if none
QuantidadeNoCarrinho(u, p) ==
  LET ls == SelectSeq(carrinhos[u], LAMBDA l : l.productId = p)
  IN  IF ls = <<>> THEN 0 ELSE ls[1].quantidade

\* CartItem.findOne({ where: { cartId, productId } })
AddReadItem(c, f) ==
  /\ pc[c] = "a_item"
  /\ Falha(f)
  /\ IF f
       THEN Fim(c, "erro_interno")
       ELSE /\ loc' = [loc EXCEPT ![c] =
                         @ @@ [noCarrinho |-> QuantidadeNoCarrinho(loc[c].userId, req[c].id)]]
            /\ pc' = [pc EXCEPT ![c] = "a_write"]
            /\ UNCHANGED resp
  /\ UNCHANGED <<db, seqPedido, estoqueAntes, req, tx>>
  /\ UNCHANGED usuarios

\* A DELETE of the cart line of product p of user u is pending in an open
\* transaction: a write to that row, or an INSERT of the same (cartId,
\* productId), waits for the transaction to end.
LinhaBloqueada(u, p) ==
  \E d \in Calls : tx[d].estado = "open" /\ loc[d].userId = u /\ p \in tx[d].destroy

\* cartItem.update({ quantidade: novaQuantidade }) on the line found (an UPDATE
\* by id, which changes nothing if the row is gone), or CartItem.create when
\* none was found (cart_items has a unique index on cartId, productId).
AddWrite(c, f) ==
  /\ pc[c] = "a_write"
  /\ Falha(f)
  /\ LET u == loc[c].userId
         p == req[c].id
         nova == loc[c].noCarrinho + loc[c].quantidade
     IN  IF f
           THEN Fim(c, "erro_interno") /\ UNCHANGED carrinhos
           ELSE IF loc[c].noCarrinho > 0
             THEN IF loc[c].produto.estoque < nova
                    THEN Fim(c, "estoque_insuficiente") /\ UNCHANGED carrinhos
                    ELSE /\ ~LinhaBloqueada(u, p)
                         /\ carrinhos' = [carrinhos EXCEPT ![u] =
                              [i \in 1 .. Len(@) |->
                                 IF @[i].productId = p THEN [@[i] EXCEPT !.quantidade = nova]
                                                       ELSE @[i]]]
                         /\ pc' = [pc EXCEPT ![c] = "a_reload"]
                         /\ UNCHANGED <<resp, loc>>
           ELSE /\ ~LinhaBloqueada(u, p)
                /\ IF QuantidadeNoCarrinho(u, p) > 0
                     THEN Fim(c, "erro_interno") /\ UNCHANGED carrinhos
                     ELSE /\ carrinhos' = [carrinhos EXCEPT ![u] =
                                Append(@, [productId |-> p, quantidade |-> loc[c].quantidade])]
                          /\ pc' = [pc EXCEPT ![c] = "a_reload"]
                          /\ UNCHANGED <<resp, loc>>
  /\ UNCHANGED <<produtos, enderecos, pedidos, itensPedido, seqPedido, estoqueAntes, req, tx>>
  /\ UNCHANGED usuarios

\* getCartData(userId), then success(res, updatedCart)
AddReload(c, f) ==
  /\ pc[c] = "a_reload"
  /\ Falha(f)
  /\ Fim(c, IF f THEN "erro_interno" ELSE "ok")
  /\ UNCHANGED <<db, seqPedido, estoqueAntes, req, tx>>
  /\ UNCHANGED usuarios

\* ------------------------- updateAddress, deleteAddress, setMainAddress

\* req.body of updateAddress: a new rua, with or without principal: true.
BodiesEndereco == {[rua |-> 2, temPrincipal |-> FALSE, principal |-> FALSE],
                   [rua |-> 2, temPrincipal |-> TRUE, principal |-> TRUE]}

\* Address.findByPk(id) of the three handlers, then the ownership check; on
\* success the handler goes on at pc value `next` with the instance read.
LeEndereco(c, f, next) ==
  /\ Falha(f)
  /\ LET a == req[c].id
     IN  IF f
           THEN Fim(c, "erro_interno")
           ELSE IF a \notin DOMAIN enderecos
             THEN Fim(c, "endereco_nao_encontrado")
           ELSE IF enderecos[a].userId # loc[c].userId
             THEN Fim(c, "proibido")
           ELSE /\ loc' = [loc EXCEPT ![c].endereco =
                             [id |-> a, userId |-> enderecos[a].userId,
                              principal |-> enderecos[a].principal, rua |-> enderecos[a].rua]]
                /\ pc' = [pc EXCEPT ![c] = next]
                /\ UNCHANGED resp
  /\ UNCHANGED <<db, seqPedido, estoqueAntes, req, tx>>

\* Address.update({ principal: false }, { where: { userId } })
DesmarcaPrincipal(c, f, next) ==
  /\ Falha(f)
  /\ IF f
       THEN Fim(c, "erro_interno") /\ UNCHANGED enderecos
       ELSE /\ enderecos' = [a \in DOMAIN enderecos |->
                               IF enderecos[a].userId = loc[c].userId
                                 THEN [enderecos[a] EXCEPT !.principal = FALSE]
                                 ELSE enderecos[a]]
            /\ pc' = [pc EXCEPT ![c] = next]
            /\ UNCHANGED <<resp, loc>>
  /\ UNCHANGED <<produtos, carrinhos, pedidos, itensPedido, seqPedido, estoqueAntes, req, tx>>

\* PUT /api/addresses/:id
UpdateAddressBegin(c, u, a, b) ==
  /\ pc[c] = "idle"
  /\ \A d \in Calls : d < c => pc[d] # "idle"
  /\ req' = [req EXCEPT ![c] = [NoReq EXCEPT !.kind = "updateAddress", !.id = a]]
  /\ loc' = [loc EXCEPT ![c] = [NoLoc EXCEPT !.userId = u] @@ [body |-> b]]
  /\ pc' = [pc EXCEPT ![c] = "e_read"]
  /\ UNCHANGED <<db, seqPedido, estoqueAntes, tx, resp, falhas>>
  /\ UNCHANGED usuarios

UpdateAddressRead(c, f) ==
  /\ pc[c] = "e_read"
  /\ LeEndereco(c, f, IF loc[c].body.temPrincipal /\ loc[c].body.principal
                         /\ req[c].id \in DOMAIN enderecos /\ ~enderecos[req[c].id].principal
                        THEN "e_unset" ELSE "e_write")
  /\ UNCHANGED usuarios

\* if (principal && !address.principal) Address.update({ principal: false }, ...)
UpdateAddressUnset(c, f) ==
  /\ pc[c] = "e_unset"
  /\ DesmarcaPrincipal(c, f, "e_write")
  /\ UNCHANGED usuarios

\* Faulty variant of EscreveEndereco: the orders delivered to the address follow it.
EscreveEnderecoEPedidos(a, lido, rua, temPrincipal, principal) ==
  /\ enderecos' = [enderecos EXCEPT ![a].rua = rua]
  /\ pedidos' = [o \in DOMAIN pedidos |->
                   IF pedidos[o].enderecoEntrega.id = a
                     THEN [pedidos[o] EXCEPT !.enderecoEntrega.rua = rua]
                     ELSE pedidos[o]]

\* address.update(updateData): UPDATE addresses SET the fields that differ from
\* the instance as read, WHERE id; nothing is written if the row is gone.  The
\* orders table is not written.
EscreveEndereco(a, lido, rua, temPrincipal, principal) ==
  /\ enderecos' =
       IF a \notin DOMAIN enderecos THEN enderecos
       ELSE [enderecos EXCEPT
               ![a].rua = IF rua # lido.rua THEN rua ELSE @,
               ![a].principal = IF temPrincipal /\ principal # lido.principal
                                  THEN principal ELSE @]
  /\ UNCHANGED pedidos

\* address.update(updateData), then success(res, address)
UpdateAddressWrite(c, f) ==
  /\ pc[c] = "e_write"
  /\ Falha(f)
  /\ IF f
       THEN Fim(c, "erro_interno") /\ UNCHANGED <<enderecos, pedidos>>
       ELSE /\ EscreveEndereco(req[c].id, loc[c].endereco, loc[c].body.rua,
                               loc[c].body.temPrincipal, loc[c].body.principal)
            /\ Fim(c, "ok")
  /\ UNCHANGED <<produtos, carrinhos, itensPedido, seqPedido, estoqueAntes, req, tx>>
  /\ UNCHANGED usuarios

\* DELETE /api/addresses/:id
DeleteAddressBegin(c, u, a) ==
  /\ pc[c] = "idle"
  /\ \A d \in Calls : d < c => pc[d] # "idle"
  /\ req' = [req EXCEPT ![c] = [NoReq EXCEPT !.kind = "deleteAddress", !.id = a]]
  /\ loc' = [loc EXCEPT ![c] = [NoLoc EXCEPT !.userId = u]]
  /\ pc' = [pc EXCEPT ![c] = "r_read"]
  /\ UNCHANGED <<db, seqPedido, estoqueAntes, tx, resp, falhas>>
  /\ UNCHANGED usuarios

DeleteAddressRead(c, f) ==
  /\ pc[c] = "r_read"
  /\ LeEndereco(c, f, "r_destroy")
  /\ UNCHANGED usuarios

\* address.destroy(): DELETE FROM addresses WHERE id, then success(res, null)
DeleteAddressDestroy(c, f) ==
  /\ pc[c] = "r_destroy"
  /\ Falha(f)
  /\ IF f
       THEN Fim(c, "erro_interno") /\ UNCHANGED enderecos
       ELSE /\ enderecos' = [a \in DOMAIN enderecos \ {req[c].id} |-> enderecos[a]]
            /\ Fim(c, "ok")
  /\ UNCHANGED <<produtos, carrinhos, pedidos, itensPedido, seqPedido, estoqueAntes, req, tx>>
  /\ UNCHANGED usuarios

\* PUT /api/addresses/:id/main
SetMainAddressBegin(c, u, a) ==
  /\ pc[c] = "idle"
  /\ \A d \in Calls : d < c => pc[d] # "idle"
  /\ req' = [req EXCEPT ![c] = [NoReq EXCEPT !.kind = "setMainAddress", !.id = a]]
  /\ loc' = [loc EXCEPT ![c] = [NoLoc EXCEPT !.userId = u]]
  /\ pc' = [pc EXCEPT ![c] = "m_read"]
  /\ UNCHANGED <<db, seqPedido, estoqueAntes, tx, resp, falhas>>
  /\ UNCHANGED usuarios

SetMainAddressRead(c, f) ==
  /\ pc[c] = "m_read"
  /\ LeEndereco(c, f, "m_unset")
  /\ UNCHANGED usuarios

\* Address.update({ principal: false }, { where: { userId } })
SetMainAddressUnset(c, f) ==
  /\ pc[c] = "m_unset"
  /\ DesmarcaPrincipal(c, f, "m_write")
  /\ UNCHANGED usuarios

\* address.update({ principal: true }), then success(res, address)
SetMainAddressWrite(c, f) ==
  /\ pc[c] = "m_write"
  /\ Falha(f)
  /\ IF f
       THEN Fim(c, "erro_interno") /\ UNCHANGED <<enderecos, pedidos>>
       ELSE /\ EscreveEndereco(req[c].id, loc[c].endereco, loc[c].endereco.rua, TRUE, TRUE)
            /\ Fim(c, "ok")
  /\ UNCHANGED <<produtos, carrinhos, itensPedido, seqPedido, estoqueAntes, req, tx>>
  /\ UNCHANGED usuarios

\* ------------------------------------------------------------ createAddress

\* The id the addresses sequence gives next (used where no address is deleted).
NovoEndereco == Cardinality(DOMAIN enderecos) + 1

\* POST /api/addresses, with principal true or false in the body
CreateAddressBegin(c, u, principal) ==
  /\ pc[c] = "idle"
  /\ \A d \in Calls : d < c => pc[d] # "idle"
  /\ req' = [req EXCEPT ![c] = [NoReq EXCEPT !.kind = "createAddress"]]
  /\ loc' = [loc EXCEPT ![c] = [NoLoc EXCEPT !.userId = u] @@ [principal |-> principal]]
  /\ pc' = [pc EXCEPT ![c] = IF principal THEN "n_unset" ELSE "n_create"]
  /\ UNCHANGED <<db, seqPedido, estoqueAntes, tx, resp, falhas>>

\* if (principal) Address.update({ principal: false }, { where: { userId } })
CreateAddressUnset(c, f) ==
  /\ pc[c] = "n_unset"
  /\ DesmarcaPrincipal(c, f, "n_create")
  /\ UNCHANGED usuarios

\* Address.create({ userId, rua, ..., principal: principal || false }), then 201
CreateAddressInsert(c, f) ==
  /\ pc[c] = "n_create"
  /\ Falha(f)
  /\ IF f
       THEN Fim(c, "erro_interno") /\ UNCHANGED enderecos
       ELSE /\ enderecos' = enderecos @@
                 (NovoEndereco :> [userId |-> loc[c].userId, principal |-> loc[c].principal,
                                   rua |-> 2])
            /\ Fim(c, "ok")
  /\ UNCHANGED <<usuarios, produtos, carrinhos, pedidos, itensPedido, seqPedido,
                 estoqueAntes, req, tx>>

\* ------------------------- register, login, authenticateToken, deactivateAccount

\* The id the users sequence gives next (no user row is ever deleted).
NovoUsuario == Cardinality(DOMAIN usuarios) + 1

\* The users rows with this email (users.email is unique)
ComEmail(e) == {u \in DOMAIN usuarios : usuarios[u].email = e}

\* POST /api/auth/register
RegisterBegin(c, e, t) ==
  /\ pc[c] = "idle"
  /\ \A d \in Calls : d < c => pc[d] # "idle"
  /\ req' = [req EXCEPT ![c] = [NoReq EXCEPT !.kind = "register"]]
  /\ loc' = [loc EXCEPT ![c] = NoLoc @@ [email |-> e, tipo |-> t]]
  /\ pc' = [pc EXCEPT ![c] = "g_find"]
  /\ UNCHANGED <<db, seqPedido, estoqueAntes, tx, resp, falhas>>

\* User.findOne({ where: { email } }): conflict if the email is in use
RegisterFind(c, f) ==
  /\ pc[c] = "g_find"
  /\ Falha(f)
  /\ IF f
       THEN Fim(c, "erro_interno")
       ELSE IF ComEmail(loc[c].email) # {}
         THEN Fim(c, "email_em_uso")
         ELSE pc' = [pc EXCEPT ![c] = "g_user"] /\ UNCHANGED <<resp, loc>>
  /\ UNCHANGED <<db, seqPedido, estoqueAntes, req, tx>>

\* User.create(...), which throws on an email taken meanwhile; for a produtor
\* the handler then generates the token and answers 201.
RegisterCreateUser(c, f) ==
  /\ pc[c] = "g_user"
  /\ Falha(f)
  /\ IF f \/ ComEmail(loc[c].email) # {}
       THEN Fim(c, "erro_interno") /\ UNCHANGED usuarios
       ELSE /\ usuarios' = usuarios @@
                 (NovoUsuario :> [email |-> loc[c].email, tipo |-> loc[c].tipo,
                                  ativo |-> TRUE, token |-> loc[c].tipo # "consumidor"])
            /\ IF loc[c].tipo = "consumidor"
                 THEN /\ loc' = [loc EXCEPT ![c].userId = NovoUsuario]
                      /\ pc' = [pc EXCEPT ![c] = "g_cart"]
                      /\ UNCHANGED resp
                 ELSE Fim(c, "ok")
  /\ UNCHANGED <<produtos, carrinhos, enderecos, pedidos, itensPedido, seqPedido,
                 estoqueAntes, req, tx>>

\* if (tipo === 'consumidor') Cart.create({ userId: user.id }), then the token
\* and the 201 answer; when it throws, the catch block answers 500 and the user
\* row, inserted with no transaction, stays.
RegisterCreateCart(c, f) ==
  /\ pc[c] = "g_cart"
  /\ Falha(f)
  /\ IF f
       THEN Fim(c, "erro_interno") /\ UNCHANGED <<carrinhos, usuarios>>
       ELSE /\ carrinhos' = carrinhos @@ (loc[c].userId :> <<>>)
            /\ usuarios' = [usuarios EXCEPT ![loc[c].userId].token = TRUE]
            /\ Fim(c, "ok")
  /\ UNCHANGED <<produtos, enderecos, pedidos, itensPedido, seqPedido, estoqueAntes, req, tx>>

\* POST /api/auth/login
LoginBegin(c, e, senhaValida) ==
  /\ pc[c] = "idle"
  /\ \A d \in Calls : d < c => pc[d] # "idle"
  /\ req' = [req EXCEPT ![c] = [NoReq EXCEPT !.kind = "login"]]
  /\ loc' = [loc EXCEPT ![c] = NoLoc @@ [email |-> e, senhaValida |-> senhaValida]]
  /\ pc' = [pc EXCEPT ![c] = "l_find"]
  /\ UNCHANGED <<db, seqPedido, estoqueAntes, tx, resp, falhas>>

\* User.findOne({ where: { email } }), then the tests on the row read
LoginFind(c, f) ==
  /\ pc[c] = "l_find"
  /\ Falha(f)
  /\ IF f
       THEN Fim(c, "erro_interno")
       ELSE IF ComEmail(loc[c].email) = {}
         THEN Fim(c, "credenciais_incorretas")
         ELSE \E u \in ComEmail(loc[c].email) :
                IF ~usuarios[u].ativo
                  THEN Fim(c, "conta_desativada")
                  ELSE /\ loc' = [loc EXCEPT ![c].userId = u]
                       /\ pc' = [pc EXCEPT ![c] = "l_senha"]
                       /\ UNCHANGED resp
  /\ UNCHANGED <<db, seqPedido, estoqueAntes, req, tx>>

\* user.verificarSenha(senha), then generateToken(user) and the answer
LoginSenha(c) ==
  /\ pc[c] = "l_senha"
  /\ IF loc[c].senhaValida
       THEN /\ usuarios' = [usuarios EXCEPT ![loc[c].userId].token = TRUE]
            /\ Fim(c, "ok")
       ELSE Fim(c, "credenciais_incorretas") /\ UNCHANGED usuarios
  /\ UNCHANGED <<produtos, carrinhos, enderecos, pedidos, itensPedido, seqPedido,
                 estoqueAntes, req, tx, falhas>>

\* Faulty variant of UsuarioAtivo: the ativo flag is not looked at.
UsuarioAtivoSemFlag(u) == u \in DOMAIN usuarios

\* !user || !user.ativo of authenticateToken, negated
UsuarioAtivo(u) == u \in DOMAIN usuarios /\ usuarios[u].ativo

\* A request carrying a token issued to user u, routed to handler k behind
\* authenticateToken (getProfile or deactivateAccount).
AuthBegin(c, u, k) ==
  /\ pc[c] = "idle"
  /\ \A d \in Calls : d < c => pc[d] # "idle"
  /\ u \in DOMAIN usuarios /\ usuarios[u].token
  /\ req' = [req EXCEPT ![c] = [NoReq EXCEPT !.kind = k, !.id = u]]
  /\ loc' = [loc EXCEPT ![c] = NoLoc]
  /\ pc' = [pc EXCEPT ![c] = "t_auth"]
  /\ UNCHANGED <<db, seqPedido, estoqueAntes, tx, resp, falhas>>

\* authenticateToken: jwt.verify, User.findByPk(decoded.userId), 401 unless the
\* user exists and is active, else req.user = user and next()
Authenticate(c, f) ==
  /\ pc[c] = "t_auth"
  /\ Falha(f)
  /\ IF f
       THEN Fim(c, "erro_interno")
       ELSE IF ~UsuarioAtivo(req[c].id)
         THEN Fim(c, "nao_autorizado")
         ELSE /\ loc' = [loc EXCEPT ![c].userId = req[c].id]
              /\ pc' = [pc EXCEPT ![c] = IF req[c].kind = "deactivate"
                                           THEN "k_deactivate" ELSE "k_profile"]
              /\ UNCHANGED resp
  /\ UNCHANGED <<db, seqPedido, estoqueAntes, req, tx>>

\* getProfile: User.findByPk(req.user.id, ...), then success
GetProfile(c, f) ==
  /\ pc[c] = "k_profile"
  /\ Falha(f)
  /\ Fim(c, IF f THEN "erro_interno" ELSE "ok")
  /\ UNCHANGED <<db, seqPedido, estoqueAntes, req, tx>>

\* deactivateAccount: User.update({ ativo: false }, { where: { id: userId } })
DeactivateAccount(c, f) ==
  /\ pc[c] = "k_deactivate"
  /\ Falha(f)
  /\ IF f
       THEN Fim(c, "erro_interno") /\ UNCHANGED usuarios
       ELSE /\ usuarios' = [usuarios EXCEPT ![loc[c].userId].ativo = FALSE]
            /\ Fim(c, "ok")
  /\ UNCHANGED <<produtos, carrinhos, enderecos, pedidos, itensPedido, seqPedido,
                 estoqueAntes, req, tx>>

\* ---------------------------- the order routes: requireConsumidor, requireProdutor

\* authenticateToken, then requireConsumidor or requireProdutor, both call next():
\* the user of the token exists, is active and has the type t of the route.
Admitido(u, t) == UsuarioAtivo(u) /\ usuarios[u].tipo = t

\* A request of user u to order route k, which asks for type t, stopped by the
\* middleware: 401 from authenticateToken, or 403 from requireConsumidor or
\* requireProdutor; the controller is not called.
RotaRecusada(c, u, k, t) ==
  /\ pc[c] = "idle"
  /\ \A d \in Calls : d < c => pc[d] # "idle"
  /\ ~Admitido(u, t)
  /\ req' = [req EXCEPT ![c] = [NoReq EXCEPT !.kind = k]]
  /\ Fim(c, IF UsuarioAtivo(u) THEN "proibido" ELSE "nao_autorizado")
  /\ UNCHANGED <<db, seqPedido, estoqueAntes, tx, falhas>>

\* ------------------------------------------- updateProduct, deleteProduct

\* req.body of updateProduct: the fields it carries (preco; promocao with
\* percentualDesconto), the others being undefined.
SemBody == [temPreco |-> FALSE, preco |-> 0, temPromocao |-> FALSE, promocao |-> FALSE,
            percentualDesconto |-> NullPct]
Bodies ==
  {[SemBody EXCEPT !.temPreco = TRUE, !.preco = 700],
   [SemBody EXCEPT !.temPromocao = TRUE, !.promocao = TRUE, !.percentualDesconto = 60],
   [SemBody EXCEPT !.temPromocao = TRUE]}

\* PUT /api/products/:id
UpdateProductBegin(c, u, p, b) ==
  /\ pc[c] = "idle"
  /\ \A d \in Calls : d < c => pc[d] # "idle"
  /\ req' = [req EXCEPT ![c] = [NoReq EXCEPT !.kind = "updateProduct", !.id = p]]
  /\ loc' = [loc EXCEPT ![c] = [NoLoc EXCEPT !.userId = u] @@ [body |-> b]]
  /\ pc' = [pc EXCEPT ![c] = "p_read"]
  /\ UNCHANGED <<db, seqPedido, estoqueAntes, tx, resp, falhas>>
  /\ UNCHANGED usuarios

\* Product.findByPk(id), then the ownership check
UpdateProductRead(c, f) ==
  /\ pc[c] = "p_read"
  /\ Falha(f)
  /\ LET p == req[c].id
     IN  IF f
           THEN Fim(c, "erro_interno")
           ELSE IF p \notin DOMAIN produtos
             THEN Fim(c, "produto_nao_encontrado")
           ELSE IF produtos[p].produtorId # loc[c].userId
             THEN Fim(c, "proibido")
           ELSE /\ loc' = [loc EXCEPT ![c] = @ @@ [produto |-> produtos[p]]]
                /\ pc' = [pc EXCEPT ![c] = "p_write"]
                /\ UNCHANGED resp
  /\ UNCHANGED <<db, seqPedido, estoqueAntes, req, tx>>
  /\ UNCHANGED usuarios

\* updateData: preco if given; promocao, and percentualDesconto (null unless
\* promocao), if promocao is given.
UpdateData(b) ==
  [temPreco |-> b.temPreco, preco |-> b.preco, temPromocao |-> b.temPromocao,
   promocao |-> b.promocao,
   percentualDesconto |-> IF b.promocao THEN b.percentualDesconto ELSE NullPct]

\* Faulty variant of AplicaUpdateData: it also reprices the stored lines of the product.
AplicaUpdateDataRecalcula(p, lido, d) ==
  /\ produtos' = [produtos EXCEPT ![p].preco = IF d.temPreco THEN d.preco ELSE @]
  /\ itensPedido' = [o \in DOMAIN itensPedido |->
                       [i \in 1 .. Len(itensPedido[o]) |->
                          IF itensPedido[o][i].productId = p /\ d.temPreco
                            THEN [itensPedido[o][i] EXCEPT !.precoUnitario = d.preco]
                            ELSE itensPedido[o][i]]]

\* product.update(updateData): UPDATE products SET the fields of updateData that
\* differ from the instance as read, WHERE id (a preco given as a number always
\* differs from the DECIMAL string read).  No other table is written.
AplicaUpdateData(p, lido, d) ==
  /\ produtos' = [produtos EXCEPT
       ![p].preco = IF d.temPreco THEN d.preco ELSE @,
       ![p].promocao = IF d.temPromocao /\ d.promocao # lido.promocao THEN d.promocao ELSE @,
       ![p].percentualDesconto =
          IF d.temPromocao /\ d.percentualDesconto # lido.percentualDesconto
            THEN d.percentualDesconto ELSE @]
  /\ UNCHANGED itensPedido

\* product.update(updateData); Product.preco has validate min 0.01 and
\* percentualDesconto min 0, max 100, a failed validation throws.
UpdateProductWrite(c, f) ==
  /\ pc[c] = "p_write"
  /\ Falha(f)
  /\ LET d == UpdateData(loc[c].body)
     IN  IF \/ f
            \/ d.temPreco /\ d.preco < 1
            \/ d.temPromocao /\ d.percentualDesconto # NullPct
                 /\ (d.percentualDesconto < 0 \/ d.percentualDesconto > 100)
           THEN Fim(c, "erro_interno") /\ UNCHANGED <<produtos, itensPedido>>
           ELSE /\ AplicaUpdateData(req[c].id, loc[c].produto, d)
                /\ pc' = [pc EXCEPT ![c] = "p_reload"]
                /\ UNCHANGED <<resp, loc>>
  /\ UNCHANGED <<carrinhos, enderecos, pedidos, seqPedido, estoqueAntes, req, tx>>
  /\ UNCHANGED usuarios

\* Product.findByPk(id, include ...), then success(res, updatedProduct)
UpdateProductReload(c, f) ==
  /\ pc[c] = "p_reload"
  /\ Falha(f)
  /\ Fim(c, IF f THEN "erro_interno" ELSE "ok")
  /\ UNCHANGED <<db, seqPedido, estoqueAntes, req, tx>>
  /\ UNCHANGED usuarios

\* DELETE /api/products/:id
DeleteProductBegin(c, u, p) ==
  /\ pc[c] = "idle"
  /\ \A d \in Calls : d < c => pc[d] # "idle"
  /\ req' = [req EXCEPT ![c] = [NoReq EXCEPT !.kind = "deleteProduct", !.id = p]]
  /\ loc' = [loc EXCEPT ![c] = [NoLoc EXCEPT !.userId = u]]
  /\ pc' = [pc EXCEPT ![c] = "d_read"]
  /\ UNCHANGED <<db, seqPedido, estoqueAntes, tx, resp, falhas>>
  /\ UNCHANGED usuarios

\* Product.findByPk(id), then the ownership check
DeleteProductRead(c, f) ==
  /\ pc[c] = "d_read"
  /\ Falha(f)
  /\ LET p == req[c].id
     IN  IF f
           THEN Fim(c, "erro_interno")
           ELSE IF p \notin DOMAIN produtos
             THEN Fim(c, "produto_nao_encontrado")
           ELSE IF produtos[p].produtorId # loc[c].userId
             THEN Fim(c, "proibido")
           ELSE /\ loc' = [loc EXCEPT ![c] = @ @@ [produto |-> produtos[p]]]
                /\ pc' = [pc EXCEPT ![c] = "d_write"]
                /\ UNCHANGED resp
  /\ UNCHANGED <<db, seqPedido, estoqueAntes, req, tx>>
  /\ UNCHANGED usuarios

\* product.update({ ativo: false }), the soft delete: the row stays, and is
\* written only if it was read active; then success(res, null)
DeleteProductWrite(c, f) ==
  /\ pc[c] = "d_write"
  /\ Falha(f)
  /\ IF f
       THEN Fim(c, "erro_interno") /\ UNCHANGED produtos
       ELSE /\ produtos' = [produtos EXCEPT ![req[c].id].ativo =
                              IF loc[c].produto.ativo THEN FALSE ELSE @]
            /\ Fim(c, "ok")
  /\ UNCHANGED <<carrinhos, enderecos, pedidos, itensPedido, seqPedido, estoqueAntes, req, tx>>
  /\ UNCHANGED usuarios

\* ------------------------------------------------------------ the system

Produto(preco, promocao, pct, estoque, ativo, produtor) ==
  [preco |-> preco, promocao |-> promocao, percentualDesconto |-> pct,
   estoque |-> estoque, ativo |-> ativo, produtorId |-> produtor]

\* The users registered at the start: consumers 1 and 2, producers 3 and 4, all
\* active and holding a token (their email is their number).
UsuariosIniciais ==
  [u \in Consumidores \cup Produtores |->
     [email |-> u, tipo |-> IF u \in Consumidores THEN "consumidor" ELSE "produtor",
      ativo |-> TRUE, token |-> TRUE]]

InitCalls ==
  /\ usuarios = UsuariosIniciais
  /\ pc = [c \in Calls |-> "idle"]
  /\ req = [c \in Calls |-> NoReq]
  /\ loc = [c \in Calls |-> NoLoc]
  /\ tx = [c \in Calls |-> NoTx]
  /\ resp = [c \in Calls |-> "none"]
  /\ falhas = 0
  /\ enderecos = (1 :> [userId |-> 1, principal |-> TRUE, rua |-> 1]) @@
                 (2 :> [userId |-> 2, principal |-> FALSE, rua |-> 1])

\* No order has been placed yet.
SemPedidos ==
  /\ pedidos = <<>>
  /\ itensPedido = <<>>
  /\ estoqueAntes = <<>>
  /\ seqPedido = 1

\* The stock of the catalog before any order.
InitEstoque == (1 :> 3) @@ (2 :> 2)

\* The cart of consumer 1: one unit of each product.
CarrinhoInicial ==
  <<[productId |-> 1, quantidade |-> 1], [productId |-> 2, quantidade |-> 1]>>

\* The rows a createOrder of consumer 1 over CarrinhoInicial, with the principal
\* address, has committed: order 1, pendente, 5.00 + 8.00, and one unit of each
\* product taken from the stock.
ComPedido ==
  /\ pedidos = (1 :> [consumidorId         |-> 1,
                      status               |-> "pendente",
                      valorTotal           |-> 1300,
                      enderecoEntrega      |-> [id |-> 1, userId |-> 1, principal |-> TRUE, rua |-> 1],
                      dataEntregaRealizada |-> FALSE])
  /\ itensPedido = (1 :> <<[orderId |-> 1, productId |-> 1, quantidade |-> 1,
                            precoUnitario |-> 500, subtotal |-> 500],
                           [orderId |-> 1, productId |-> 2, quantidade |-> 1,
                            precoUnitario |-> 800, subtotal |-> 800]>>)
  /\ estoqueAntes = (1 :> [ok |-> TRUE, cancelou |-> FALSE, estoque |-> InitEstoque])
  /\ seqPedido = 2

\* Two consumers whose carts share product 1; the catalog either as seeded, or
\* after consumer 1 has placed order 1 and filled the cart again, product 1 then
\* having stock for one of the two carts only.
Init ==
  /\ InitCalls
  /\ \/ SemPedidos /\ produtos = (1 :> Produto(500, FALSE, NullPct, InitEstoque[1], TRUE, 3)) @@
                                  (2 :> Produto(1000, TRUE, 20, InitEstoque[2], TRUE, 4))
     \/ ComPedido /\ produtos = (1 :> Produto(500, FALSE, NullPct, InitEstoque[1] - 1, TRUE, 3)) @@
                                 (2 :> Produto(1000, TRUE, 20, InitEstoque[2] - 1, TRUE, 4))
  /\ carrinhos = (1 :> CarrinhoInicial) @@
                 (2 :> <<[productId |-> 1, quantidade |-> 2]>>)

Next ==
  \E c \in Calls :
    \/ \E u \in Consumidores, e \in {0} \cup AddrIds : CreateBegin(c, u, e)
    \/ \E f \in BOOLEAN : CreateReadCart(c, f)
    \/ \E f \in BOOLEAN : CreateReadAddress(c, f)
    \/ \E f \in BOOLEAN : CreateOrderRow(c, f)
    \/ \E f \in BOOLEAN : CreateItem(c, f)
    \/ \E f \in BOOLEAN : CreateDecrement(c, f)
    \/ \E f \in BOOLEAN : CreateDestroy(c, f)
    \/ CreateCommit(c)
    \/ \E f \in BOOLEAN : CreateReload(c, f)
    \/ \E u \in Consumidores, o \in DOMAIN pedidos : CancelBegin(c, u, o)
    \/ \E f \in BOOLEAN : CancelRead(c, f)
    \/ \E f \in BOOLEAN : CancelIncrement(c, f)
    \/ \E f \in BOOLEAN : CancelUpdate(c, f)
    \/ CancelCommit(c)
    \/ \E u \in Produtores, o \in DOMAIN pedidos, s \in StatusEnum : UpdBegin(c, u, o, s)
    \/ \E f \in BOOLEAN : UpdRead(c, f)
    \/ \E f \in BOOLEAN : UpdWrite(c, f)

Spec == Init /\ [][Next]_vars

\* ---------------------------------------- catalog edits beside the orders

\* The order handlers of one consumer and one producer, and the catalog edits
\* of the two producers.
NextCatalogo ==
  \E c \in Calls :
    \/ CreateBegin(c, 1, 0)
    \/ CreateReadCart(c, FALSE)
    \/ CreateReadAddress(c, FALSE)
    \/ CreateOrderRow(c, FALSE)
    \/ \E f \in BOOLEAN : CreateItem(c, f)
    \/ CreateDecrement(c, FALSE)
    \/ CreateDestroy(c, FALSE)
    \/ CreateCommit(c)
    \/ CreateReload(c, FALSE)
    \/ \E o \in DOMAIN pedidos : CancelBegin(c, 1, o)
    \/ CancelRead(c, FALSE)
    \/ CancelIncrement(c, FALSE)
    \/ CancelUpdate(c, FALSE)
    \/ CancelCommit(c)
    \/ \E o \in DOMAIN pedidos, s \in {"preparando", "entregue"} : UpdBegin(c, 3, o, s)
    \/ UpdRead(c, FALSE)
    \/ UpdWrite(c, FALSE)
    \/ \E u \in Produtores, p \in Products, b \in Bodies : UpdateProductBegin(c, u, p, b)
    \/ \E f \in BOOLEAN : UpdateProductRead(c, f)
    \/ \E f \in BOOLEAN : UpdateProductWrite(c, f)
    \/ \E f \in BOOLEAN : UpdateProductReload(c, f)
    \/ \E u \in Produtores, p \in Products : DeleteProductBegin(c, u, p)
    \/ \E f \in BOOLEAN : DeleteProductRead(c, f)
    \/ \E f \in BOOLEAN : DeleteProductWrite(c, f)

SpecCatalogo == Init /\ [][NextCatalogo]_vars

\* ------------------------------------------------- pricing: one createOrder
PrecoSet == {350, 500, 999, 1000}
PctSet == {0, 20, 60, 100}

\* A product row as createProduct and updateProduct leave it:
\* percentualDesconto is NULL unless promocao.
Catalogo(estoques, ativos, produtor) ==
  {Produto(pr, FALSE, NullPct, e, a, produtor) : pr \in PrecoSet, e \in estoques, a \in ativos}
  \cup
  {Produto(x[1], TRUE, x[2], e, a, produtor) :
     x \in PrecoSet \X PctSet, e \in estoques, a \in ativos}

\* One consumer with a cart of one or two lines over any such catalog.
InitPreco ==
  /\ InitCalls /\ SemPedidos
  /\ \E p1 \in Catalogo({MaxQtd}, {TRUE}, 3), p2 \in Catalogo({1, MaxQtd}, BOOLEAN, 4) :
       produtos = (1 :> p1) @@ (2 :> p2)
  /\ \E q1, q2 \in 1 .. MaxQtd :
       carrinhos \in {(1 :> <<[productId |-> 1, quantidade |-> q1]>>) @@ (2 :> <<>>),
                      (1 :> <<[productId |-> 1, quantidade |-> q1],
                              [productId |-> 2, quantidade |-> q2]>>) @@ (2 :> <<>>)}

NextPreco ==
  \E c \in {1} :
    \/ CreateBegin(c, 1, 0)
    \/ \E f \in BOOLEAN : CreateReadCart(c, f)
    \/ \E f \in BOOLEAN : CreateReadAddress(c, f)
    \/ \E f \in BOOLEAN : CreateOrderRow(c, f)
    \/ \E f \in BOOLEAN : CreateItem(c, f)
    \/ \E f \in BOOLEAN : CreateDecrement(c, f)
    \/ \E f \in BOOLEAN : CreateDestroy(c, f)
    \/ CreateCommit(c)
    \/ \E f \in BOOLEAN : CreateReload(c, f)

SpecPreco == InitPreco /\ [][NextPreco]_vars

\* ------------------------------------------ validation: one createOrder

\* A catalog whose products may be sold out or deactivated, and consumer 1 with
\* a cart of no line, of one line or of two lines.
InitValida ==
  /\ InitCalls /\ SemPedidos
  /\ \E e1, e2 \in 0 .. MaxQtd, a1, a2 \in BOOLEAN :
       produtos = (1 :> Produto(500, FALSE, NullPct, e1, a1, 3)) @@
                  (2 :> Produto(1000, TRUE, 20, e2, a2, 4))
  /\ \E q1, q2 \in 1 .. MaxQtd :
       carrinhos \in {(1 :> <<>>) @@ (2 :> <<>>),
                      (1 :> <<[productId |-> 1, quantidade |-> q1]>>) @@ (2 :> <<>>),
                      (1 :> <<[productId |-> 1, quantidade |-> q1],
                              [productId |-> 2, quantidade |-> q2]>>) @@ (2 :> <<>>)}

SpecValida == InitValida /\ [][NextPreco]_vars

\* ------------------------------------------ carts: createOrder, addToCart

\* Consumer 1 without a cart row, with a cart of no lines, or with the cart of
\* two lines; consumer 2 with a cart of one line.
InitCarrinho ==
  /\ InitCalls /\ SemPedidos
  /\ produtos = (1 :> Produto(500, FALSE, NullPct, InitEstoque[1], TRUE, 3)) @@
                (2 :> Produto(1000, TRUE, 20, InitEstoque[2], TRUE, 4))
  /\ carrinhos \in {(2 :> <<[productId |-> 1, quantidade |-> 2]>>),
                    (1 :> <<>>) @@ (2 :> <<[productId |-> 1, quantidade |-> 2]>>),
                    (1 :> CarrinhoInicial) @@ (2 :> <<[productId |-> 1, quantidade |-> 2]>>)}

NextCarrinho ==
  \E c \in Calls :
    \/ \E u \in Consumidores, e \in {0} \cup AddrIds : CreateBegin(c, u, e)
    \/ \E f \in BOOLEAN : CreateReadCart(c, f)
    \/ \E f \in BOOLEAN : CreateReadAddress(c, f)
    \/ \E f \in BOOLEAN : CreateOrderRow(c, f)
    \/ \E f \in BOOLEAN : CreateItem(c, f)
    \/ \E f \in BOOLEAN : CreateDecrement(c, f)
    \/ \E f \in BOOLEAN : CreateDestroy(c, f)
    \/ CreateCommit(c)
    \/ \E f \in BOOLEAN : CreateReload(c, f)
    \/ \E u \in Consumidores, p \in Products : AddBegin(c, u, p, 1)
    \/ \E f \in BOOLEAN : AddReadProduct(c, f)
    \/ \E f \in BOOLEAN : AddReadCart(c, f)
    \/ \E f \in BOOLEAN : AddCreateCart(c, f)
    \/ \E f \in BOOLEAN : AddReadItem(c, f)
    \/ \E f \in BOOLEAN : AddWrite(c, f)
    \/ \E f \in BOOLEAN : AddReload(c, f)

SpecCarrinho == InitCarrinho /\ [][NextCarrinho]_vars

\* --------------------------------- addresses beside createOrder

\* Consumer 1 with a principal and a second address, consumer 2 with an address
\* that is not principal; no order yet, or order 1 delivered to address 1.  The
\* calls are consumer 1's, on its own addresses and on consumer 2's.
InitEndereco ==
  /\ usuarios = UsuariosIniciais
  /\ pc = [c \in Calls |-> "idle"]
  /\ req = [c \in Calls |-> NoReq]
  /\ loc = [c \in Calls |-> NoLoc]
  /\ tx = [c \in Calls |-> NoTx]
  /\ resp = [c \in Calls |-> "none"]
  /\ falhas = 0
  /\ enderecos = (1 :> [userId |-> 1, principal |-> TRUE, rua |-> 1]) @@
                 (2 :> [userId |-> 2, principal |-> FALSE, rua |-> 1]) @@
                 (3 :> [userId |-> 1, principal |-> FALSE, rua |-> 1])
  /\ \/ SemPedidos /\ produtos = (1 :> Produto(500, FALSE, NullPct, InitEstoque[1], TRUE, 3)) @@
                                  (2 :> Produto(1000, TRUE, 20, InitEstoque[2], TRUE, 4))
     \/ ComPedido /\ produtos = (1 :> Produto(500, FALSE, NullPct, InitEstoque[1] - 1, TRUE, 3)) @@
                                 (2 :> Produto(1000, TRUE, 20, InitEstoque[2] - 1, TRUE, 4))
  /\ carrinhos = (1 :> CarrinhoInicial) @@
                 (2 :> <<[productId |-> 1, quantidade |-> 2]>>)

NextEndereco ==
  \E c \in Calls :
    \/ \E e \in {0} \cup DOMAIN enderecos : CreateBegin(c, 1, e)
    \/ CreateReadCart(c, FALSE)
    \/ \E f \in BOOLEAN : CreateReadAddress(c, f)
    \/ CreateOrderRow(c, FALSE)
    \/ CreateItem(c, FALSE)
    \/ CreateDecrement(c, FALSE)
    \/ CreateDestroy(c, FALSE)
    \/ CreateCommit(c)
    \/ CreateReload(c, FALSE)
    \/ \E a \in DOMAIN enderecos, b \in BodiesEndereco : UpdateAddressBegin(c, 1, a, b)
    \/ UpdateAddressRead(c, FALSE)
    \/ UpdateAddressUnset(c, FALSE)
    \/ \E f \in BOOLEAN : UpdateAddressWrite(c, f)
    \/ \E a \in DOMAIN enderecos : DeleteAddressBegin(c, 1, a)
    \/ DeleteAddressRead(c, FALSE)
    \/ DeleteAddressDestroy(c, FALSE)
    \/ \E a \in DOMAIN enderecos : SetMainAddressBegin(c, 1, a)
    \/ SetMainAddressRead(c, FALSE)
    \/ SetMainAddressUnset(c, FALSE)
    \/ \E f \in BOOLEAN : SetMainAddressWrite(c, f)

SpecEndereco == InitEndereco /\ [][NextEndereco]_vars

\* ----------------------------------------- the principal address of a user

\* createAddress, updateAddress and setMainAddress of consumer 1, on its own
\* addresses; no address is deleted.
NextPrincipal ==
  \E c \in Calls :
    \/ \E b \in BOOLEAN : CreateAddressBegin(c, 1, b)
    \/ \E f \in BOOLEAN : CreateAddressUnset(c, f)
    \/ \E f \in BOOLEAN : CreateAddressInsert(c, f)
    \/ \E a \in {1, 3}, b \in BodiesEndereco : UpdateAddressBegin(c, 1, a, b)
    \/ \E f \in BOOLEAN : UpdateAddressRead(c, f)
    \/ \E f \in BOOLEAN : UpdateAddressUnset(c, f)
    \/ \E f \in BOOLEAN : UpdateAddressWrite(c, f)
    \/ \E a \in {1, 3} : SetMainAddressBegin(c, 1, a)
    \/ \E f \in BOOLEAN : SetMainAddressRead(c, f)
    \/ \E f \in BOOLEAN : SetMainAddressUnset(c, f)
    \/ \E f \in BOOLEAN : SetMainAddressWrite(c, f)

SpecPrincipal == InitEndereco /\ [][NextPrincipal]_vars

\* ------------------------------------------------------------- accounts

\* The emails of requests: those of users 1 and 3, and two not yet registered.
Emails == {1, 3, 5, 6}

InitConta ==
  /\ InitCalls /\ SemPedidos
  /\ produtos = (1 :> Produto(500, FALSE, NullPct, InitEstoque[1], TRUE, 3)) @@
                (2 :> Produto(1000, TRUE, 20, InitEstoque[2], TRUE, 4))
  /\ carrinhos = (1 :> CarrinhoInicial) @@
                 (2 :> <<[productId |-> 1, quantidade |-> 2]>>)

NextConta ==
  \E c \in Calls :
    \/ \E e \in Emails, t \in {"consumidor", "produtor"} : RegisterBegin(c, e, t)
    \/ \E f \in BOOLEAN : RegisterFind(c, f)
    \/ \E f \in BOOLEAN : RegisterCreateUser(c, f)
    \/ \E f \in BOOLEAN : RegisterCreateCart(c, f)
    \/ \E e \in Emails, s \in BOOLEAN : LoginBegin(c, e, s)
    \/ \E f \in BOOLEAN : LoginFind(c, f)
    \/ LoginSenha(c)
    \/ \E u \in DOMAIN usuarios, k \in {"profile", "deactivate"} : AuthBegin(c, u, k)
    \/ \E f \in BOOLEAN : Authenticate(c, f)
    \/ \E f \in BOOLEAN : GetProfile(c, f)
    \/ \E f \in BOOLEAN : DeactivateAccount(c, f)

SpecConta == InitConta /\ [][NextConta]_vars

\* ------------------------------------------- the order routes, any caller

\* The three order routes called by any user, consumer or producer; no database
\* statement throws.  No handler here writes users.tipo or users.ativo, so what
\* the middleware read of the user holds when the controller starts.
NextAcesso ==
  \E c \in Calls :
    \/ \E u \in DOMAIN usuarios, e \in {0} \cup AddrIds :
         Admitido(u, "consumidor") /\ CreateBegin(c, u, e)
    \/ CreateReadCart(c, FALSE)
    \/ CreateReadAddress(c, FALSE)
    \/ CreateOrderRow(c, FALSE)
    \/ CreateItem(c, FALSE)
    \/ CreateDecrement(c, FALSE)
    \/ CreateDestroy(c, FALSE)
    \/ CreateCommit(c)
    \/ CreateReload(c, FALSE)
    \/ \E u \in DOMAIN usuarios, o \in DOMAIN pedidos :
         Admitido(u, "consumidor") /\ CancelBegin(c, u, o)
    \/ CancelRead(c, FALSE)
    \/ CancelIncrement(c, FALSE)
    \/ CancelUpdate(c, FALSE)
    \/ CancelCommit(c)
    \/ \E u \in DOMAIN usuarios, o \in DOMAIN pedidos, s \in {"confirmado", "entregue"} :
         Admitido(u, "produtor") /\ UpdBegin(c, u, o, s)
    \/ UpdRead(c, FALSE)
    \/ UpdWrite(c, FALSE)
    \/ \E u \in DOMAIN usuarios, k \in {"create", "cancel"} : RotaRecusada(c, u, k, "consumidor")
    \/ \E u \in DOMAIN usuarios : RotaRecusada(c, u, "status", "produtor")

SpecAcesso == Init /\ [][NextAcesso]_vars

\* ================================================================ claims

RECURSIVE QtdLinhas(_, _)
\* The quantity of product p over the lines of one order.
QtdLinhas(itens, p) ==
  IF itens = <<>> THEN 0
  ELSE (IF itens[1].productId = p THEN itens[1].quantidade ELSE 0) + QtdLinhas(Tail(itens), p)

RECURSIVE VendidoAte(_, _)
\* The quantity of product p over the lines of the committed, non-cancelled orders 1..n.
VendidoAte(n, p) ==
  IF n = 0 THEN 0
  ELSE (IF n \in DOMAIN pedidos /\ pedidos[n].status # "cancelado"
          THEN QtdLinhas(itensPedido[n], p) ELSE 0) + VendidoAte(n - 1, p)

EstoqueAtual == [p \in Products |-> produtos[p].estoque]

\* C1: concurrent createOrder calls on the same product never overdraw it: in every
\* reachable state each product's estoque is >= 0 and the quantity in committed,
\* non-cancelled order lines does not exceed its initial stock.
C1_SemSobrevenda ==
  \A p \in Products :
    /\ produtos[p].estoque >= 0
    /\ VendidoAte(seqPedido - 1, p) <= InitEstoque[p]

\* C2: a createOrder that fails at or after its first write (Order.create,
\* OrderItem.create, Product.decrement or CartItem.destroy throws) leaves nothing
\* behind: its transaction is rolled back, no order or order line with the id it
\* inserted exists, and no step of the call changed a committed row (stock, cart
\* lines, orders): only the commit of a createOrder writes.
C2_FalhouNaEscrita(c) ==
  req[c].kind = "create" /\ pc[c] = "done" /\ resp[c] = "erro_interno"

C2_Atomicidade ==
  /\ [](\A c \in Calls :
          C2_FalhouNaEscrita(c) =>
            /\ tx[c].estado = "rollback"
            /\ loc[c].orderId \notin DOMAIN pedidos
            /\ loc[c].orderId \notin DOMAIN itensPedido)
  /\ [][\A c \in Calls :
          (req'[c].kind = "create" /\ pc'[c] # pc[c] /\ pc[c] # "c_commit") => db' = db]_vars

\* C2 witness: a createOrder whose Order.create had run was rolled back by a later throw.
C2_Witness ==
  \E c \in Calls : C2_FalhouNaEscrita(c) /\ loc[c].orderId # 0 /\ tx[c].estado = "rollback"

\* C3: a createOrder or cancelOrder call that ends without a success response
\* has persisted none of its writes (its transaction did not commit).
C3_TudoOuNada ==
  \A c \in Calls :
    (req[c].kind \in {"create", "cancel"} /\ pc[c] = "done" /\ resp[c] # "ok") =>
      /\ tx[c].estado # "commit"
      /\ req[c].kind = "create" => loc[c].orderId \notin DOMAIN pedidos

\* C4: a committed createOrder followed, with no other stock change in between or
\* after, by a committed cancelOrder of that order leaves every product's estoque
\* at its value before the createOrder.
C4_CancelarRestauraEstoque ==
  \A o \in DOMAIN pedidos :
    (estoqueAntes[o].cancelou /\ estoqueAntes[o].ok) =>
      EstoqueAtual = estoqueAntes[o].estoque

\* C4 witness: an order was created and cancelled with no other stock change.
C4_Witness ==
  \E o \in DOMAIN pedidos :
    /\ estoqueAntes[o].cancelou /\ estoqueAntes[o].ok
    /\ pedidos[o].status = "cancelado"
    /\ \E p \in Products : QtdLinhas(itensPedido[o], p) = 2

\* C5: cancelOrder that reads its order with a status outside {pendente,
\* confirmado} answers "not cancellable", rolls its transaction back and changes
\* no committed row (neither the order's status nor any estoque).
C5_LeuNaoCancelavel(c) ==
  /\ pc[c] = "x_read" /\ pc'[c] # "x_read" /\ falhas' = falhas
  /\ req[c].id \in DOMAIN pedidos
  /\ pedidos[req[c].id].consumidorId = loc[c].userId
  /\ pedidos[req[c].id].status \in {"preparando", "enviado", "entregue", "cancelado"}

C5_GuardaDeCancelamento ==
  /\ [][\A c \in Calls :
          C5_LeuNaoCancelavel(c) =>
            /\ resp'[c] = "nao_pode_cancelar"
            /\ tx'[c].estado = "rollback"
            /\ db' = db]_vars
  /\ [](\A c \in Calls : resp[c] = "nao_pode_cancelar" => tx[c].estado = "rollback")

\* C5 witness: a second cancelOrder of an already cancelled order was refused.
C5_Witness ==
  \E c \in Calls :
    /\ req[c].kind = "cancel" /\ resp[c] = "nao_pode_cancelar"
    /\ pedidos[req[c].id].status = "cancelado"
    /\ EstoqueAtual = InitEstoque

\* C6: whatever the interleaving of cancelOrder calls (and updateOrderStatus) on
\* one order, stock is restored at most once per order: at most one cancelOrder
\* of a given order commits its increments.
C6_CancelaUmaVez ==
  \A o \in DOMAIN pedidos :
    Cardinality({c \in Calls : req[c].kind = "cancel" /\ req[c].id = o
                               /\ tx[c].estado = "commit"}) <= 1

\* C7: entregue and cancelado are terminal: no step changes a stored status that
\* is one of them.
C7_StatusTerminal ==
  [][\A o \in DOMAIN pedidos :
       pedidos[o].status \in {"entregue", "cancelado"} =>
         pedidos'[o].status = pedidos[o].status]_vars

\* C8: a status becomes cancelado only by the commit of a cancelOrder, and only
\* over a stored status of pendente or confirmado.
C8_CanceladoSoDePendenteOuConfirmado ==
  [][\A o \in DOMAIN pedidos :
       (pedidos'[o].status = "cancelado" /\ pedidos[o].status # "cancelado") =>
         /\ pedidos[o].status \in {"pendente", "confirmado"}
         /\ \E c \in Calls : req[c].kind = "cancel" /\ req[c].id = o
                             /\ pc[c] = "x_commit" /\ pc'[c] = "done"]_vars

RECURSIVE SomaArmazenada(_)
\* The sum of the stored subtotal column over the lines of one order, in cents.
SomaArmazenada(itens) ==
  IF itens = <<>> THEN 0 ELSE itens[1].subtotal + SomaArmazenada(Tail(itens))

\* C9: for every committed order, valorTotal equals the sum of the stored
\* subtotals of its lines, to the cent (each stored subtotal being the line's
\* quantidade x precoUnitario kept at 2 decimals).
C9_TotalIgualSomaDosSubtotais ==
  \A o \in DOMAIN pedidos :
    pedidos[o].valorTotal = SomaArmazenada(itensPedido[o])

\* The discounted price of the claim, preco x (1 - percentualDesconto/100) under an
\* active promotion and preco otherwise, in units of 1/Escala cent.
PrecoComDesconto(p) ==
  IF p.promocao /\ p.percentualDesconto > 0
    THEN p.preco * (100 - p.percentualDesconto)
    ELSE p.preco * 100

\* The order lines a createOrder call has written (buffered, or committed and not
\* yet answered), beside the cart lines it read.
LinhasEscritas(c) ==
  IF req[c].kind # "create" THEN <<>>
  ELSE IF tx[c].estado = "open" THEN tx[c].itens
  ELSE IF pc[c] = "c_reload" THEN itensPedido[loc[c].orderId]
  ELSE <<>>

\* C10 as claimed: the stored precoUnitario is exactly the discounted price of
\* the product row the call read.
C10_PrecoExato ==
  \A c \in Calls : \A i \in 1 .. Len(LinhasEscritas(c)) :
    LinhasEscritas(c)[i].precoUnitario * Escala = PrecoComDesconto(loc[c].cart[i].produto)

\* C10 as amended: the stored precoUnitario is the discounted price of the product
\* row the call read, rounded to the nearest cent by the DECIMAL(10,2) column
\* (so exactly that price whenever it is a whole number of cents).
C10_PrecoArredondado ==
  \A c \in Calls : \A i \in 1 .. Len(LinhasEscritas(c)) :
    LET d == LinhasEscritas(c)[i].precoUnitario * Escala
             - PrecoComDesconto(loc[c].cart[i].produto)
    IN  /\ LinhasEscritas(c)[i].productId = loc[c].cart[i].productId
        /\ 2 * d <= Escala /\ 2 * d >= 0 - Escala

\* C10 witness: a line of a product priced 10.00 under a 20% promotion is stored at 8.00.
C10_Witness ==
  \E c \in Calls : \E i \in 1 .. Len(LinhasEscritas(c)) :
    /\ loc[c].cart[i].produto.preco = 1000
    /\ loc[c].cart[i].produto.promocao
    /\ loc[c].cart[i].produto.percentualDesconto = 20
    /\ LinhasEscritas(c)[i].precoUnitario = 800

\* C11: once an order is committed, no step of any handler (updateProduct,
\* deleteProduct, cancelOrder, updateOrderStatus, another createOrder) changes
\* its valorTotal or the precoUnitario, quantidade or subtotal of its lines.
C11_PrecoCongelado ==
  [][\A o \in DOMAIN pedidos :
       /\ pedidos'[o].valorTotal = pedidos[o].valorTotal
       /\ itensPedido'[o] = itensPedido[o]]_vars

\* C11 witness: updateProduct has repriced product 1 to 7.00 while a committed
\* line of it still carries the 5.00 it was bought at.
C11_Witness ==
  /\ \E c \in Calls : req[c].kind = "updateProduct" /\ req[c].id = 1 /\ resp[c] = "ok"
  /\ produtos[1].preco = 700
  /\ \E o \in DOMAIN pedidos : \E i \in 1 .. Len(itensPedido[o]) :
       itensPedido[o][i].productId = 1 /\ itensPedido[o][i].precoUnitario = 500

\* C12: a createOrder whose Cart.findOne finds no cart, or a cart of no lines,
\* answers with the empty-cart validation error, rolls its transaction back and
\* changes no committed row; such a call has inserted no order.
C12_LeuCarrinhoVazio(c) ==
  /\ pc[c] = "c_cart" /\ pc'[c] # "c_cart" /\ falhas' = falhas
  /\ loc[c].userId \notin DOMAIN carrinhos \/ carrinhos[loc[c].userId] = <<>>

C12_CarrinhoVazioRejeitado ==
  /\ [][\A c \in Calls :
          C12_LeuCarrinhoVazio(c) =>
            /\ resp'[c] = "carrinho_vazio"
            /\ tx'[c].estado = "rollback"
            /\ db' = db /\ seqPedido' = seqPedido]_vars
  /\ [](\A c \in Calls :
          resp[c] = "carrinho_vazio" => tx[c].estado = "rollback" /\ loc[c].orderId = 0)

\* C12 witness: consumer 1, who has no cart row, was refused (no order exists and
\* consumer 2's cart still has its line, so the refused call was consumer 1's).
C12_Witness ==
  /\ \E c \in Calls : req[c].kind = "create" /\ resp[c] = "carrinho_vazio"
  /\ 1 \notin DOMAIN carrinhos
  /\ carrinhos[2] # <<>>
  /\ pedidos = <<>>

\* C13: with no catalog edit, whenever no createOrder or cancelOrder transaction
\* is open, each product's estoque is its initial estoque minus the quantity in
\* the lines of the committed orders whose status is not cancelado.
C13_ConservacaoDeEstoque ==
  (\A c \in Calls : tx[c].estado # "open") =>
    \A p \in Products :
      produtos[p].estoque = InitEstoque[p] - VendidoAte(seqPedido - 1, p)

\* The step of call c is the commit of its createOrder.
C14_Commit(c) == req[c].kind = "create" /\ pc[c] = "c_commit" /\ pc'[c] = "c_reload"

\* No step of a createOrder other than its commit changes a cart line, so a call
\* that fails or rolls back leaves the cart lines as they were.
C14_SoNoCommit ==
  \A c \in Calls :
    (req'[c].kind = "create" /\ pc'[c] # pc[c] /\ ~C14_Commit(c)) => carrinhos' = carrinhos

\* C14 as claimed: createOrder deletes cart lines only in its commit, and after the
\* commit the buyer's cart row exists and has zero lines.
C14_CarrinhoVazioAposCommit ==
  [][/\ C14_SoNoCommit
     /\ \A c \in Calls :
          C14_Commit(c) =>
            /\ loc[c].userId \in DOMAIN carrinhos'
            /\ carrinhos'[loc[c].userId] = <<>>]_vars

\* C14 as amended: createOrder deletes cart lines only in its commit, and after
\* the commit the buyer's cart row exists and none of the lines its
\* CartItem.destroy statement saw is left; the cart has zero lines unless a cart
\* handler committed a new line after that statement ran.
C14_LinhasVistasApagadas ==
  [][/\ C14_SoNoCommit
     /\ \A c \in Calls :
          C14_Commit(c) =>
            LET u == loc[c].userId
            IN  /\ u \in DOMAIN carrinhos'
                /\ \A i \in 1 .. Len(carrinhos'[u]) :
                     carrinhos'[u][i].productId \notin tx[c].destroy
                /\ \A i \in 1 .. Len(carrinhos[u]) :
                     carrinhos[u][i].productId \notin tx[c].destroy =>
                       \E j \in 1 .. Len(carrinhos'[u]) : carrinhos'[u][j] = carrinhos[u][i]
                /\ (\A i \in 1 .. Len(carrinhos[u]) :
                      carrinhos[u][i].productId \in tx[c].destroy) => carrinhos'[u] = <<>>]_vars

\* C14 witness: consumer 2's createOrder has committed and the cart is empty.
C14_Witness ==
  \E c \in Calls :
    /\ req[c].kind = "create" /\ tx[c].estado = "commit"
    /\ loc[c].orderId \in DOMAIN pedidos
    /\ pedidos[loc[c].orderId].consumidorId = 2
    /\ carrinhos[2] = <<>>

\* The step of call c is the address lookup of its createOrder, and did not throw.
C15_LeuEndereco(c) ==
  req[c].kind = "create" /\ pc[c] = "c_addr" /\ pc'[c] # "c_addr" /\ falhas' = falhas

\* The answer r was sent with the transaction rolled back and no committed row changed.
C15_Recusado(c, r) ==
  resp'[c] = r /\ tx'[c].estado = "rollback" /\ db' = db /\ seqPedido' = seqPedido

\* C15: a createOrder given an enderecoId that is not an address of the caller
\* answers address-not-found; given none, with no principal address of the
\* caller, it answers no-delivery-address; either way it rolls back and changes
\* no committed row.  Every committed order carries an address of its buyer.
C15_ResolucaoDeEndereco ==
  /\ [][\A c \in Calls :
          C15_LeuEndereco(c) =>
            LET u == loc[c].userId
                e == loc[c].enderecoId
            IN  /\ (e # 0 /\ ~(e \in DOMAIN enderecos /\ enderecos[e].userId = u))
                     => C15_Recusado(c, "endereco_nao_encontrado")
                /\ (e = 0 /\ ~\E a \in DOMAIN enderecos :
                                 enderecos[a].userId = u /\ enderecos[a].principal)
                     => C15_Recusado(c, "sem_endereco")]_vars
  /\ [](\A c \in Calls :
          resp[c] \in {"endereco_nao_encontrado", "sem_endereco"} /\ req[c].kind = "create"
            => tx[c].estado = "rollback" /\ loc[c].orderId = 0)
  /\ [](\A o \in DOMAIN pedidos :
          pedidos[o].enderecoEntrega.userId = pedidos[o].consumidorId)

\* C15 witness: a createOrder of consumer 1 was refused for want of a principal
\* address, after deleteAddress removed the principal one.
C15_Witness ==
  /\ \E c \in Calls : req[c].kind = "create" /\ resp[c] = "sem_endereco"
  /\ \E c \in Calls : req[c].kind = "deleteAddress" /\ resp[c] = "ok"
  /\ ~\E a \in DOMAIN enderecos : enderecos[a].userId = 1 /\ enderecos[a].principal
  /\ \A o \in DOMAIN pedidos : o = 1

\* C16: no step of updateAddress, deleteAddress or setMainAddress (nor any other
\* step) changes the enderecoEntrega stored in a committed order.
C16_EnderecoPorValor ==
  [][\A o \in DOMAIN pedidos :
       pedidos'[o].enderecoEntrega = pedidos[o].enderecoEntrega]_vars

\* C16 witness: an order still carries rua 1 of address 1 after updateAddress
\* gave that address another rua.
C16_Witness ==
  /\ \E c \in Calls : req[c].kind = "updateAddress" /\ req[c].id = 1 /\ resp[c] = "ok"
  /\ 1 \in DOMAIN enderecos /\ enderecos[1].rua = 2
  /\ \E o \in DOMAIN pedidos :
       pedidos[o].enderecoEntrega.id = 1 /\ pedidos[o].enderecoEntrega.rua = 1

\* C17: updateOrderStatus goes past its first check only with a target in
\* {confirmado, preparando, enviado, entregue}, any other target being answered
\* "invalid status"; a call that finds its order with a stored status of entregue
\* or cancelado answers "already finalized"; neither refusal changes a committed
\* row, and a write of updateOrderStatus never makes a status pendente or cancelado.
C17_AlvosERecusas ==
  [][\A c \in Calls :
       /\ (pc[c] = "idle" /\ req'[c].kind = "status") =>
            /\ \/ pc'[c] = "u_read"
                    /\ loc'[c].status \in {"confirmado", "preparando", "enviado", "entregue"}
               \/ pc'[c] = "done" /\ resp'[c] = "status_invalido"
            /\ db' = db
       /\ (/\ req[c].kind = "status" /\ pc[c] = "u_read" /\ pc'[c] # "u_read"
           /\ falhas' = falhas
           /\ req[c].id \in DOMAIN pedidos
           /\ \E i \in 1 .. Len(itensPedido[req[c].id]) :
                produtos[itensPedido[req[c].id][i].productId].produtorId = loc[c].userId
           /\ pedidos[req[c].id].status \in {"entregue", "cancelado"}) =>
            resp'[c] = "ja_finalizado" /\ db' = db
       /\ (req[c].kind = "status" /\ pc'[c] # pc[c]) =>
            \A o \in DOMAIN pedidos :
              pedidos'[o].status # pedidos[o].status =>
                pedidos'[o].status \in {"confirmado", "preparando", "enviado", "entregue"}]_vars

\* C17 witness: an updateOrderStatus found its order cancelado or entregue and
\* was refused, the order being left as it was.
C17_Witness ==
  \E c \in Calls :
    /\ req[c].kind = "status" /\ resp[c] = "ja_finalizado"
    /\ pedidos[req[c].id].status \in {"entregue", "cancelado"}
    /\ pedidos[req[c].id].dataEntregaRealizada = (pedidos[req[c].id].status = "entregue")

\* C18: a step changes dataEntregaRealizada of an order only if it is the write
\* of an updateOrderStatus on that order with target entregue, which sets it; the
\* write of any other accepted target, and every other step, leaves it as it was.
C18_CarimboSoEmEntregue ==
  [][\A o \in DOMAIN pedidos :
       IF \E c \in Calls : /\ req[c].kind = "status" /\ req[c].id = o
                           /\ pc[c] = "u_write" /\ resp'[c] = "ok"
                           /\ loc[c].status = "entregue"
         THEN pedidos'[o].dataEntregaRealizada
         ELSE pedidos'[o].dataEntregaRealizada = pedidos[o].dataEntregaRealizada]_vars

\* C18 witness: an updateOrderStatus moved an order to entregue and stamped it.
C18_Witness ==
  \E c \in Calls :
    /\ req[c].kind = "status" /\ resp[c] = "ok"
    /\ pedidos[req[c].id].status = "entregue"
    /\ pedidos[req[c].id].dataEntregaRealizada

\* C19: once its register call has ended, a user of type consumidor has a cart
\* (at most one: carts.userId is unique) and a user of type produtor has none.
C19_CarrinhoDoConsumidor ==
  \A u \in DOMAIN usuarios :
    (\A c \in Calls : ~(req[c].kind = "register" /\ pc[c] # "done" /\ loc[c].userId = u)) =>
      (usuarios[u].tipo = "consumidor") = (u \in DOMAIN carrinhos)

\* C20: a login that finds its user inactive is refused and issues no token; a
\* request whose token names an inactive user is answered 401 by
\* authenticateToken and reaches no controller; and an inactive user stays
\* inactive, so this holds for every request after deactivateAccount has written.
C20_DesativadoNaoEntra ==
  /\ [][\A c \in Calls :
          /\ (/\ req[c].kind = "login" /\ pc[c] = "l_find" /\ pc'[c] # "l_find"
              /\ falhas' = falhas
              /\ \E u \in DOMAIN usuarios :
                   usuarios[u].email = loc[c].email /\ ~usuarios[u].ativo) =>
               resp'[c] = "conta_desativada" /\ pc'[c] = "done" /\ db' = db
          /\ (/\ pc[c] = "t_auth" /\ pc'[c] # "t_auth" /\ falhas' = falhas
              /\ ~usuarios[req[c].id].ativo) =>
               resp'[c] = "nao_autorizado" /\ pc'[c] = "done" /\ db' = db]_vars
  /\ [][\A u \in DOMAIN usuarios : ~usuarios[u].ativo => ~usuarios'[u].ativo]_vars

\* C20 witness: deactivateAccount of a user has answered, and a later request
\* with a token of that user was answered 401.
C20_Witness ==
  \E c, d \in Calls :
    /\ c < d
    /\ req[c].kind = "deactivate" /\ resp[c] = "ok"
    /\ req[d].kind \in {"profile", "deactivate"} /\ req[d].id = req[c].id
    /\ resp[d] = "nao_autorizado"
    /\ ~usuarios[req[c].id].ativo

\* C21: the decrement of createOrder takes effect only on a product whose estoque
\* covers the amount: whenever a createOrder commits, each product's committed
\* estoque is at least the quantity the call takes from it (and a call whose
\* decrement finds less is answered insufficient stock and rolled back).
C21_DecrementoCondicional ==
  [][\A c \in Calls :
       (req[c].kind = "create" /\ pc[c] = "c_commit" /\ pc'[c] = "c_reload") =>
         \A p \in Products : produtos[p].estoque + SomaDeltas(tx[c].deltas, p) >= 0]_vars

\* C22: the product row createOrder validated and priced a line against is still
\* the committed row when the line's decrement runs: no committed write to the
\* product (stock, price, promotion, active flag) has come between the read and
\* the decrement, so the line is for an active product at its current price.
C22_LeituraNaTransacao ==
  [][\A c \in Calls :
       (req[c].kind = "create" /\ pc[c] = "c_dec" /\ pc'[c] \in {"c_item", "c_destroy"}) =>
         LET lido == loc[c].cart[loc[c].i]
         IN  produtos[lido.productId] = lido.produto]_vars

\* The step of call c is the validation loop of its createOrder, and did not throw.
C23_Validou(c) ==
  req[c].kind = "create" /\ pc[c] = "c_order" /\ pc'[c] # "c_order" /\ falhas' = falhas

\* The lines of the cart read whose product is inactive, and those whose stock is short.
C23_Inativas(c) == {i \in 1 .. Len(loc[c].cart) : ~loc[c].cart[i].produto.ativo}
C23_Curtas(c) ==
  {i \in 1 .. Len(loc[c].cart) : loc[c].cart[i].produto.estoque < loc[c].cart[i].quantidade}

\* A validation failure has no side effect: the call is rolled back, no committed
\* row changes and no order id is taken.
C23_SemEfeito(c) == tx'[c].estado = "rollback" /\ db' = db /\ seqPedido' = seqPedido

\* C23 as claimed: the cart is tested first, then every line for an inactive
\* product, then every line for its stock: a cart with an inactive product is
\* answered unavailable, and insufficient stock is answered only when no line's
\* product is inactive; a validation failure has no side effect.
C23_ValidacaoPorFases ==
  [][\A c \in Calls :
       C23_Validou(c) =>
         /\ C23_Inativas(c) # {} => resp'[c] = "indisponivel" /\ C23_SemEfeito(c)
         /\ (C23_Inativas(c) = {} /\ C23_Curtas(c) # {}) =>
              resp'[c] = "estoque_insuficiente" /\ C23_SemEfeito(c)]_vars

\* C23 as amended: an empty cart is refused first; then the lines are taken in
\* row order and each is tested for an inactive product and then for its stock,
\* the error being that of the first line that fails either test; a cart with no
\* such line gets neither error; a validation failure has no side effect.
C23_PrimeiraLinhaInvalida ==
  [][\A c \in Calls :
       /\ (req[c].kind = "create" /\ pc[c] = "c_cart" /\ pc'[c] # "c_cart" /\ falhas' = falhas
           /\ (loc[c].userId \notin DOMAIN carrinhos \/ carrinhos[loc[c].userId] = <<>>)) =>
            resp'[c] = "carrinho_vazio" /\ C23_SemEfeito(c)
       /\ C23_Validou(c) =>
            LET ruins == C23_Inativas(c) \cup C23_Curtas(c)
            IN  IF ruins = {}
                  THEN resp'[c] \notin {"carrinho_vazio", "indisponivel", "estoque_insuficiente"}
                  ELSE LET m == CHOOSE i \in ruins : \A j \in ruins : i <= j
                       IN  /\ resp'[c] = IF m \in C23_Inativas(c) THEN "indisponivel"
                                                                  ELSE "estoque_insuficiente"
                           /\ C23_SemEfeito(c)]_vars

\* C23 witness: a cart whose first line is short of stock, its product active, and
\* whose second line is of an inactive product was answered insufficient stock,
\* and nothing was written.
C23_Witness ==
  /\ \E c \in Calls : req[c].kind = "create" /\ resp[c] = "estoque_insuficiente"
                      /\ tx[c].estado = "rollback"
  /\ Len(carrinhos[1]) = 2
  /\ produtos[carrinhos[1][1].productId].ativo
  /\ produtos[carrinhos[1][1].productId].estoque < carrinhos[1][1].quantidade
  /\ ~produtos[carrinhos[1][2].productId].ativo
  /\ pedidos = <<>> /\ seqPedido = 1

\* C24: an updateOrderStatus of a producer of the order that reads it with a
\* status other than entregue and cancelado goes on to its write whatever that
\* status and whatever the target (earlier in the happy path, later, or the
\* same); the write, unless it throws, is answered with success and stores the
\* target over the status that was read.
C24_SemOrdemEntreStatus ==
  [][\A c \in Calls :
       /\ (/\ req[c].kind = "status" /\ pc[c] = "u_read" /\ pc'[c] # "u_read"
           /\ falhas' = falhas
           /\ req[c].id \in DOMAIN pedidos
           /\ \E i \in 1 .. Len(itensPedido[req[c].id]) :
                produtos[itensPedido[req[c].id][i].productId].produtorId = loc[c].userId
           /\ pedidos[req[c].id].status \in {"pendente", "confirmado", "preparando", "enviado"}) =>
            /\ pc'[c] = "u_write" /\ resp'[c] = "none"
            /\ loc'[c].status = loc[c].status
            /\ loc[c].status \in {"confirmado", "preparando", "enviado", "entregue"}
       /\ (req[c].kind = "status" /\ pc[c] = "u_write" /\ pc'[c] # "u_write"
           /\ falhas' = falhas) =>
            /\ resp'[c] = "ok"
            /\ pedidos[req[c].id].status = loc[c].orderStatus =>
                 pedidos'[req[c].id].status = loc[c].status]_vars

\* C24 witness: after one updateOrderStatus moved an order to enviado, another
\* with target confirmado has read it and been let through to its write.
C24_Witness ==
  \E c, d \in Calls :
    /\ req[c].kind = "status" /\ resp[c] = "ok"
    /\ req[d].kind = "status" /\ req[d].id = req[c].id
    /\ pc[d] = "u_write"
    /\ loc[d].orderStatus = "enviado" /\ loc[d].status = "confirmado"
    /\ pedidos[req[d].id].status = "enviado"

\* C25: no handler here adds a cart line, so each buyer's cart contents are
\* converted at most once: at most one createOrder of a given buyer commits.
C25_UmPedidoPorCarrinho ==
  \A u \in Consumidores :
    Cardinality({c \in Calls : /\ req[c].kind = "create" /\ tx[c].estado = "commit"
                               /\ pedidos[loc[c].orderId].consumidorId = u}) <= 1

\* C26: every cart line the commit of a createOrder deletes is a line of the
\* order it commits, with the same product and the same quantity.
C26_ApagadasSaoDoPedido ==
  [][\A c \in Calls :
       (req[c].kind = "create" /\ pc[c] = "c_commit" /\ pc'[c] = "c_reload") =>
         LET antes == carrinhos[loc[c].userId]
         IN  \A i \in 1 .. Len(antes) :
               antes[i].productId \in tx[c].destroy =>
                 \E j \in 1 .. Len(tx[c].itens) :
                   /\ tx[c].itens[j].productId = antes[i].productId
                   /\ tx[c].itens[j].quantidade = antes[i].quantidade]_vars

\* C27: a createOrder or cancelOrder call that has ended has finished its
\* transaction (commit or rollback, no rollback being attempted on a committed
\* one) and has sent its one HTTP response.
C27_UmaRespostaPorChamada ==
  \A c \in Calls :
    (req[c].kind \in {"create", "cancel"} /\ pc[c] = "done") =>
      /\ tx[c].estado \in {"commit", "rollback"}
      /\ resp[c] \notin {"none", "sem_resposta"}

\* C28: in every reachable state an order has dataEntregaRealizada set if and
\* only if its status is entregue.
C28_CarimboSseEntregue ==
  \A o \in DOMAIN pedidos :
    pedidos[o].dataEntregaRealizada = (pedidos[o].status = "entregue")

\* The step of call c changes order o as its buyer's cancelOrder, or as the
\* updateOrderStatus of a producer of one of its lines.
C29_PorUmDono(c, o) ==
  /\ pc'[c] # pc[c] /\ req[c].id = o
  /\ \/ req[c].kind = "cancel" /\ loc[c].userId = pedidos[o].consumidorId
     \/ /\ req[c].kind = "status"
        /\ \E i \in 1 .. Len(itensPedido[o]) :
             produtos[itensPedido[o][i].productId].produtorId = loc[c].userId

\* C29: a cancelOrder of a user who is not the order's buyer, and an
\* updateOrderStatus of a producer who owns no product of the order's lines, are
\* answered not-found and change no committed row (status, delivery timestamp,
\* stock); an existing order is changed only by a step of one of its owning
\* parties; and the createOrder and cancelOrder handlers run only for users of
\* type consumidor, the updateOrderStatus handler only for users of type
\* produtor, a request stopped by the middleware having no transaction and no order.
C29_SoOsDonos ==
  /\ [][\A c \in Calls :
          /\ (/\ req[c].kind = "cancel" /\ pc[c] = "x_read" /\ pc'[c] # "x_read"
              /\ req[c].id \in DOMAIN pedidos
              /\ pedidos[req[c].id].consumidorId # loc[c].userId) =>
               /\ resp'[c] = "pedido_nao_encontrado"
               /\ tx'[c].estado = "rollback" /\ db' = db
          /\ (/\ req[c].kind = "status" /\ pc[c] = "u_read" /\ pc'[c] # "u_read"
              /\ req[c].id \in DOMAIN pedidos
              /\ \A i \in 1 .. Len(itensPedido[req[c].id]) :
                   produtos[itensPedido[req[c].id][i].productId].produtorId # loc[c].userId) =>
               resp'[c] = "pedido_nao_encontrado" /\ db' = db]_vars
  /\ [][\A o \in DOMAIN pedidos :
          pedidos'[o] # pedidos[o] => \E c \in Calls : C29_PorUmDono(c, o)]_vars
  /\ [](\A c \in Calls :
          /\ (pc[c] \notin {"idle", "done"} /\ req[c].kind \in {"create", "cancel"}) =>
               usuarios[loc[c].userId].tipo = "consumidor"
          /\ (pc[c] \notin {"idle", "done"} /\ req[c].kind = "status") =>
               usuarios[loc[c].userId].tipo = "produtor"
          /\ resp[c] \in {"proibido", "nao_autorizado"} =>
               tx[c].estado = "none" /\ loc[c].orderId = 0)

\* C29 witness: consumer 2's cancelOrder of order 1, which is consumer 1's, was
\* answered not-found, the order still pendente and the stock as it was; and a
\* request to an order route was stopped with 403.
C29_Witness ==
  /\ \E c \in Calls : /\ req[c].kind = "cancel" /\ req[c].id = 1
                      /\ resp[c] = "pedido_nao_encontrado"
  /\ 1 \in DOMAIN pedidos /\ pedidos[1].status = "pendente"
  /\ EstoqueAtual = [p \in Products |-> InitEstoque[p] - 1]
  /\ \E d \in Calls : resp[d] = "proibido"

\* C30: in every reachable state each user has at most one address with
\* principal = true.
C30_UmEnderecoPrincipal ==
  \A u \in DOMAIN usuarios :
    Cardinality({a \in DOMAIN enderecos : enderecos[a].userId = u /\ enderecos[a].principal}) <= 1

====
